---------------------------- MODULE Spec2Model ----------------------------
(***************************************************************************)
(* Model of the hash-thesis measurement harness: the Count-Min, Bottom-k   *)
(* and OPH sketches (include/sketch), the multiply-shift hasher            *)
(* (include/hash/ms.hpp) and the worker pool of the parallel accuracy      *)
(* drivers (src/paralel_*.cpp, src/main_verify.cpp).                       *)
(*                                                                         *)
(* Machine words.  TLC's integers are 32-bit signed, so a uint32_t cannot  *)
(* be represented at full width.  Every word of the program is modelled    *)
(* at a reduced width of WordBits bits: a uint32_t ranges over             *)
(* 0..UINT32_MAX with UINT32_MAX = 2^WordBits - 1, a uint64_t over         *)
(* 0..TWO64-1 with TWO64 = 2^(2*WordBits), and ">> 32" is a division by    *)
(* TWO32 = 2^WordBits.  All wrap-around, saturation and sentinel           *)
(* behaviour is kept at the reduced width.                                 *)
(***************************************************************************)
EXTENDS Integers, Sequences, FiniteSets, TLC

\* ------------------------------------------------------------------ bounds
WordBits == 4      \* modelled width of a uint32_t, in bits
MaxAdds  == 3      \* CountMin::add calls per run
MaxPush  == 6      \* BottomK::push calls per run
MaxOphPush == 5    \* OPH::push calls per run, both sketches together
TabDraws == 2      \* entropy-pool draws one tabulation set_params() makes
ByteBits == 2      \* bits of one entropy-pool byte (8 in the build)
MaxDraws == 2      \* RandomPool draw calls per run, all threads together
POOL_N == 3        \* A2: items taken from the file (250'000 in the build)
STREAM_N == 4      \* A2: items sampled into the stream (500'000 in the build)
MaxAfter == 2      \* next() calls made on an exhausted cursor
MaxRecords == 2    \* records under a cursor built directly over a buffer

\* ------------------------------------------------------------- machine words
TWO32      == 2 ^ WordBits
UINT32_MAX == TWO32 - 1
TWO64      == TWO32 * TWO32
Word32     == 0 .. UINT32_MAX

Min(a, b) == IF a < b THEN a ELSE b


\* ------------------------------------------------------------ hash/ms.hpp
\* MS::set_params(a, b): the stored pair, with a forced odd
MSSetParamsAsGiven(a, b) == [a |-> a, b |-> b]
MSSetParams(a, b) == [a |-> IF a % 2 = 0 THEN a + 1 ELSE a, b |-> b]

\* MS::hash(x): high word of (a*x + b) mod 2^64
MSHash(p, x) == ((p.a * x + p.b) % TWO64) \div TWO32

\* ------------------------------------------------------ sketch/countmin.hpp
\* Row hashers a driver installs: none (fn = nullptr) or an MS instance.
CMHashers ==
    { [kind |-> "null"] } \cup
    { [kind |-> "ms", p |-> MSSetParams(ab[1], ab[2])] :
        ab \in { <<TWO32 + 3, 0>>, <<2, TWO32 * 5 + 1>> } }

\* Keys and counts passed to add()
CMKeys   == {0, 7, UINT32_MAX}
CMCounts == {1, UINT32_MAX}

\* Geometries <<width, depth>> the sketch is constructed with
CMGeometries == { <<2, 2>>, <<3, 1>> }

VARIABLES
    W_, D_,        \* CountMin geometry
    rows_,         \* CountMin: row r (0-based) -> installed hasher
    table_,        \* CountMin: flat counter table, index r * W_ + col
    cm_true,       \* ghost: key -> total count added since construction/clear
    cm_rehashed,   \* ghost: a row hasher was replaced after an add
    cm_n           \* ghost: number of add calls made

cmvars == <<W_, D_, rows_, table_, cm_true, cm_rehashed, cm_n>>

\* CountMin::fast_range32: reduction of a 32-bit x to [0, n), (x * n) >> 32
CMFastRange32(x, n) == (x * n) \div TWO32

\* Row::hash: identity when no hasher is registered
RowHash(row, k) == IF row.kind = "null" THEN k ELSE MSHash(row.p, k)

\* The saturating cell update of add(): sum in 64 bits, clamp to UINT32_MAX
SatAddWrap(cell, count) == (cell + count) % TWO32
SatAddKeepOnOverflow(cell, count) ==
    IF cell + count > UINT32_MAX THEN cell ELSE cell + count
SatAdd(cell, count) ==
    LET sum == cell + count
    IN  IF sum > UINT32_MAX THEN UINT32_MAX ELSE sum

\* The row loop of add(): rows r .. D_-1 applied to table t
RECURSIVE CMAddRows(_, _, _, _)
CMAddRows(t, r, key, count) ==
    IF r >= D_ THEN t
    ELSE LET hv  == RowHash(rows_[r], key)
             col == CMFastRange32(hv, W_)
             i   == r * W_ + col
         IN  CMAddRows([t EXCEPT ![i] = SatAdd(t[i], count)], r + 1, key, count)

\* The row loop of estimate(): running minimum ans over rows r .. D_-1
RECURSIVE CMEstimateRows(_, _, _)
CMEstimateRows(ans, r, key) ==
    IF r >= D_ THEN ans
    ELSE LET hv  == RowHash(rows_[r], key)
             col == CMFastRange32(hv, W_)
             v   == table_[r * W_ + col]
         IN  CMEstimateRows(IF v < ans THEN v ELSE ans, r + 1, key)

CMEstimate(key) == CMEstimateRows(UINT32_MAX, 0, key)

\* CountMin(width, depth): W_, D_ > 0, no row hasher set, all counters 0
CMInit ==
    /\ \E g \in CMGeometries : W_ = g[1] /\ D_ = g[2]
    /\ rows_ = [r \in 0 .. D_ - 1 |-> [kind |-> "null"]]
    /\ table_ = [i \in 0 .. W_ * D_ - 1 |-> 0]
    /\ cm_true = [k \in CMKeys |-> 0]
    /\ cm_rehashed = FALSE
    /\ cm_n = 0

\* set_row(row, hasher): out-of-range rows throw and change nothing
CMSetRow ==
    \E row \in 0 .. D_ - 1, h \in CMHashers :
        /\ rows_' = [rows_ EXCEPT ![row] = h]
        /\ cm_rehashed' = (cm_rehashed \/ (cm_n > 0 /\ h # rows_[row]))
        /\ UNCHANGED <<W_, D_, table_, cm_true, cm_n>>

\* add(key, count)
CMAdd ==
    /\ cm_n < MaxAdds
    /\ \E key \in CMKeys, count \in CMCounts :
        /\ table_' = CMAddRows(table_, 0, key, count)
        /\ cm_true' = [cm_true EXCEPT ![key] = @ + count]
    /\ cm_n' = cm_n + 1
    /\ UNCHANGED <<W_, D_, rows_, cm_rehashed>>

\* clear(): all counters back to 0 (the hashers stay)
CMClear ==
    /\ table_' = [i \in DOMAIN table_ |-> 0]
    /\ cm_true' = [k \in CMKeys |-> 0]
    /\ cm_rehashed' = FALSE
    /\ cm_n' = 0
    /\ UNCHANGED <<W_, D_, rows_>>

CMNext == CMSetRow \/ CMAdd \/ CMClear

\* ------------------------------------------------------- sketch/bottomk.hpp
\* Sizes k the sketch is constructed with, and hash values fed to push()
BKSizes  == {0, 1, 2, 4}
BKHashes == {0, 2, 3, 5, 7, 9, 11, UINT32_MAX}

VARIABLES
    k_,            \* BottomK capacity
    heap_,         \* BottomK: the stored vector (1-based sequence; code index i is i+1)
    in_heap_,      \* BottomK: the dedup set
    bk_pushed,     \* ghost: set of hash values pushed since construction/clear
    bk_n           \* ghost: number of push calls since construction/clear

bkvars == <<k_, heap_, in_heap_, bk_pushed, bk_n>>

\* element i (0-based, as in the code) of vector s, and its update
At(s, i)     == s[i + 1]
Put(s, i, v) == [s EXCEPT ![i + 1] = v]

\* std::__push_heap: sift value up from hole, not above top
RECURSIVE PushHeapFrom(_, _, _, _)
PushHeapFrom(s, hole, top, value) ==
    LET parent == (hole - 1) \div 2
    IN  IF hole > top /\ At(s, parent) < value
        THEN PushHeapFrom(Put(s, hole, At(s, parent)), parent, top, value)
        ELSE Put(s, hole, value)

\* std::__adjust_heap, first loop: move the hole down along the larger child
RECURSIVE AdjustDown(_, _, _, _)
AdjustDown(s, hole, child, len) ==
    IF child < (len - 1) \div 2
    THEN LET c2 == 2 * (child + 1)
             c  == IF At(s, c2) < At(s, c2 - 1) THEN c2 - 1 ELSE c2
         IN  AdjustDown(Put(s, hole, At(s, c)), c, c, len)
    ELSE <<s, hole, child>>

\* std::__adjust_heap(first, hole, len, value)
AdjustHeap(s, hole, len, value) ==
    LET d  == AdjustDown(s, hole, hole, len)
        s1 == d[1]
        h1 == d[2]
        c1 == d[3]
        lone == (len % 2 = 0) /\ (c1 = (len - 2) \div 2)
        s2 == IF lone THEN Put(s1, h1, At(s1, 2 * (c1 + 1) - 1)) ELSE s1
        h2 == IF lone THEN 2 * (c1 + 1) - 1 ELSE h1
    IN  PushHeapFrom(s2, h2, hole, value)

\* std::make_heap(begin, end): adjust every parent, last parent first
RECURSIVE MakeHeapFrom(_, _)
MakeHeapFrom(s, parent) ==
    LET s1 == AdjustHeap(s, parent, Len(s), At(s, parent))
    IN  IF parent = 0 THEN s1 ELSE MakeHeapFrom(s1, parent - 1)

MakeHeap(s) == IF Len(s) < 2 THEN s ELSE MakeHeapFrom(s, (Len(s) - 2) \div 2)

\* std::pop_heap(begin, end): the maximum goes to the back, the rest is a heap
PopHeap(s) ==
    IF Len(s) < 2 THEN s
    ELSE LET last == Len(s) - 1
             value == At(s, last)
         IN  AdjustHeap(Put(s, last, At(s, 0)), 0, last, value)

\* std::push_heap(begin, end): sift the back element up
PushHeap(s) == PushHeapFrom(s, Len(s) - 1, 0, At(s, Len(s) - 1))

\* BottomK(k): empty vector, empty dedup set
BKInit ==
    /\ k_ \in BKSizes
    /\ heap_ = <<>>
    /\ in_heap_ = {}
    /\ bk_pushed = {}
    /\ bk_n = 0

\* heap_ after push(h), fill phase: push_back, make_heap once size reaches k_
BKFillHeap(h) ==
    LET s == Append(heap_, h)
    IN  IF Len(s) = k_ THEN MakeHeap(s) ELSE s

\* heap_ after push(h), replace phase: pop_heap; back() = h; push_heap
BKReplaceHeapNoSift(h) ==
    LET s == PopHeap(heap_)
    IN  Put(s, Len(s) - 1, h)
BKReplaceHeapGrow(h) == PushHeap(Append(heap_, h))
BKReplaceHeap(h) ==
    LET s == PopHeap(heap_)
    IN  PushHeap(Put(s, Len(s) - 1, h))

\* in_heap_.find(h) != in_heap_.end()
BKRetainedNever(h) == FALSE
BKRetained(h) == h \in in_heap_

\* push(h) for one value h
BKPushValue(h) ==
    /\ bk_pushed' = bk_pushed \cup {h}
    /\ IF k_ = 0 THEN UNCHANGED <<heap_, in_heap_>>
       ELSE IF Len(heap_) < k_
       THEN IF BKRetained(h) THEN UNCHANGED <<heap_, in_heap_>>
            ELSE /\ heap_' = BKFillHeap(h)
                 /\ in_heap_' = in_heap_ \cup {h}
       ELSE IF h < At(heap_, 0) /\ ~BKRetained(h)
            THEN /\ heap_' = BKReplaceHeap(h)
                 /\ in_heap_' = (in_heap_ \ {At(heap_, 0)}) \cup {h}
            ELSE UNCHANGED <<heap_, in_heap_>>
    /\ bk_n' = bk_n + 1
    /\ UNCHANGED k_

\* push(h), h any of the hash values fed to the sketch
BKPush ==
    /\ bk_n < MaxPush
    /\ \E h \in BKHashes : BKPushValue(h)

\* clear()
BKClear ==
    /\ heap_' = <<>>
    /\ in_heap_' = {}
    /\ bk_pushed' = {}
    /\ bk_n' = 0
    /\ UNCHANGED k_

\* size()
BKSize == Len(heap_)

\* kth_hash()
kth_hash == IF heap_ = <<>> THEN UINT32_MAX ELSE At(heap_, 0)

\* Values heap_.front() can yield in estimate(): the first element, or an
\* indeterminate word when the vector is empty (front() of an empty vector)
BKFront == IF heap_ = <<>> THEN Word32 ELSE {At(heap_, 0)}

\* A double is modelled as the exact fraction num/den; den = 0 is +infinity
Frac(n, d) == [num |-> n, den |-> d]
Infinity   == Frac(1, 0)

\* estimate() once heap_.size() >= k_, with kmin the value read from front():
\* (k_ - 1) / (kmin / 2^32), k_ - 1 computed in size_t
BKRatioOffByOne(kmin) ==
    IF kmin = 0 THEN Infinity ELSE Frac(k_ * TWO32, kmin)
BKRatio(kmin) ==
    IF kmin = 0 THEN Infinity
    ELSE Frac(((k_ - 1 + TWO64) % TWO64) * TWO32, kmin)

\* The set of values estimate() can return
BKEstimateNoShortCount == { BKRatio(kmin) : kmin \in BKFront }
BKEstimate ==
    IF Len(heap_) < k_ THEN { Frac(Len(heap_), 1) }
    ELSE { BKRatio(kmin) : kmin \in BKFront }

BKNext == BKPush \/ BKClear

\* ----------------------------------------------------------- sketch/oph.hpp
\* Two sketches, A and B, as the drivers keep one per group of the dataset
OPHSketches  == {"A", "B"}
OPHBinCounts == {3, 8}
OPHHashes    == {0, 1, 7, UINT32_MAX - 1, UINT32_MAX}

\* OPH::EMPTY
EMPTY == UINT32_MAX

VARIABLES
    m_,            \* OPH: sketch -> number of bins
    bins_,         \* OPH: sketch -> (bin index 0..m-1 -> stored minimum or EMPTY)
    oph_bag,       \* ghost: sketch -> (hash value -> times pushed)
    oph_last,      \* ghost: the last push, [sk, hv], or [sk |-> "none"]
    oph_n          \* ghost: sketch -> number of push calls since construction/clear

ophvars == <<m_, bins_, oph_bag, oph_last, oph_n>>

\* OPH::fast_range32: reduction of a 32-bit x to [0, n), (x * n) >> 32
OPHFastRange32Mod(x, n) == x % n
OPHFastRange32(x, n) == (x * n) \div TWO32

\* bins of one sketch after push(hv): slot i keeps the smaller value
OPHPushBinsOverwrite(b, m, hv) == [b EXCEPT ![OPHFastRange32(hv, m)] = hv]
OPHPushBins(b, m, hv) ==
    LET i == OPHFastRange32(hv, m)
    IN  IF hv < b[i] THEN [b EXCEPT ![i] = hv] ELSE b

\* OPH(m_bins): m_bins > 0, every bin EMPTY
OPHInit ==
    /\ m_ \in [OPHSketches -> OPHBinCounts]
    /\ bins_ = [s \in OPHSketches |-> [i \in 0 .. m_[s] - 1 |-> EMPTY]]
    /\ oph_bag = [s \in OPHSketches |-> [h \in OPHHashes |-> 0]]
    /\ oph_last = [sk |-> "none"]
    /\ oph_n = [s \in OPHSketches |-> 0]

\* push(hv) on sketch s
OPHPush ==
    /\ oph_n["A"] + oph_n["B"] < MaxOphPush
    /\ \E s \in OPHSketches, hv \in OPHHashes :
        /\ bins_' = [bins_ EXCEPT ![s] = OPHPushBins(@, m_[s], hv)]
        /\ oph_bag' = [oph_bag EXCEPT ![s][hv] = @ + 1]
        /\ oph_last' = [sk |-> s, hv |-> hv]
        /\ oph_n' = [oph_n EXCEPT ![s] = @ + 1]
    /\ UNCHANGED m_

\* clear() on sketch s
OPHClear ==
    \E s \in OPHSketches :
        /\ bins_' = [bins_ EXCEPT ![s] = [i \in 0 .. m_[s] - 1 |-> EMPTY]]
        /\ oph_bag' = [oph_bag EXCEPT ![s] = [h \in OPHHashes |-> 0]]
        /\ oph_last' = [sk |-> "none"]
        /\ oph_n' = [oph_n EXCEPT ![s] = 0]
        /\ UNCHANGED m_

\* the loop of jaccard(): <<matches, denom>> over bins i .. size-1
RECURSIVE JaccardCountADenom(_, _, _, _, _)
JaccardCountADenom(a, b, i, matches, denom) ==
    IF i >= Cardinality(DOMAIN a) THEN <<matches, denom>>
    ELSE LET ae == (a[i] = EMPTY)
             be == (b[i] = EMPTY)
         IN  IF ae THEN JaccardCountADenom(a, b, i + 1, matches, denom)
             ELSE JaccardCountADenom(a, b, i + 1,
                     IF ~ae /\ ~be /\ a[i] = b[i] THEN matches + 1 ELSE matches,
                     denom + 1)
RECURSIVE JaccardCount(_, _, _, _, _)
JaccardCount(a, b, i, matches, denom) ==
    IF i >= Cardinality(DOMAIN a) THEN <<matches, denom>>
    ELSE LET ae == (a[i] = EMPTY)
             be == (b[i] = EMPTY)
         IN  IF ae /\ be THEN JaccardCount(a, b, i + 1, matches, denom)
             ELSE JaccardCount(a, b, i + 1,
                     IF ~ae /\ ~be /\ a[i] = b[i] THEN matches + 1 ELSE matches,
                     denom + 1)

\* jaccard(A, B): throws on mismatched m, 1.0 when no bin is occupied
Jaccard(sa, sb) ==
    IF m_[sa] # m_[sb] THEN [throw |-> "OPH jaccard: mismatched m"]
    ELSE LET c == JaccardCount(bins_[sa], bins_[sb], 0, 0, 0)
         IN  IF c[2] = 0 THEN Frac(1, 1) ELSE Frac(c[1], c[2])

OPHNext == OPHPush \/ OPHClear

\* ------------------------------------- src/paralel_*.cpp, src/main_verify.cpp
\* The parallel accuracy drivers share one main(): open the CSV, pre-draw the
\* per-repetition seeds, launch `threads` workers over R repetitions, join.
\* Driver kinds: "a1" guards the tabulation set_params() with rng_mtx
\* (paralel_BK_a1, paralel_OPH_a1, main_verify); "r1" calls it unguarded
\* (paralel_BK_r1/r2, paralel_CM_r1/r2, paralel_OPH_r1/r2).
DrvKinds == {"a1", "r1"}

\* <<threads, R>> given on the command line
DrvConfigs == { <<0, 1>>, <<1, 2>>, <<2, 2>>, <<2, 3>>, <<3, 2>> }

\* enum { IDX_MS, IDX_STAB, IDX_TORNADO_D4, IDX_RAPID32, NUM_FUNCS }
IDX_MS == 0
IDX_STAB == 1
IDX_TORNADO_D4 == 2
IDX_RAPID32 == 3
NUM_FUNCS == 4
NAMES == [f \in 0 .. NUM_FUNCS - 1 |->
            CASE f = IDX_MS -> "MultShift"
              [] f = IDX_STAB -> "SimpleTab"
              [] f = IDX_TORNADO_D4 -> "TornadoD4"
              [] f = IDX_RAPID32 -> "RapidHash32"]

PROG_STEP == 1000

HEADER == [function |-> "function", rep |-> "rep", relerr |-> "relerr", by |-> "main"]

VARIABLES
    drv_kind,      \* which driver runs
    threads, R,    \* worker count and repetition count
    out_ok,        \* whether the output file can be opened
    pc_main,       \* main thread position
    launched,      \* workers emplaced in the pool so far
    joined,        \* workers joined so far
    exit_code,     \* main's return value, or RUNNING
    rng_pos,       \* entropy pool: number of draws served so far
    params,        \* rep r -> pre-drawn seeds (pool positions they came from)
    pc,            \* worker -> position
    r_,            \* worker -> loop variable r
    h_tab,         \* worker -> this rep's tabulation hashers (positions drawn)
    buf,           \* worker -> rows staged in its ostringstream
    wr,            \* worker -> rows of buf already written to out
    n_,            \* worker -> value of done.fetch_add(1) + 1
    done,          \* the atomic repetition counter
    rng_mtx, file_mtx, cout_mtx,   \* owner of each mutex, or FREE
    out,           \* the CSV: rows in file order; `by` is a ghost, the writer
    flushes,       \* ghost: worker -> number of times it took file_mtx to write
    prev           \* ghost: (function, rep) -> relerr of an earlier run, or NO_RUN

drvvars == <<drv_kind, threads, R, out_ok, pc_main, launched, joined, exit_code,
             rng_pos, params, pc, r_, h_tab, buf, wr, n_, done,
             rng_mtx, file_mtx, cout_mtx, out, flushes, prev>>

Workers == 0 .. threads - 1

\* no thread owns the mutex; main has not returned; no earlier run recorded
FREE == -1
RUNNING == -1
NO_RUN == <<>>

\* std::lock_guard / std::mutex::lock: blocks until the mutex is free
DrvCanLockAlways(m) == TRUE
DrvCanLock(m) == m = FREE

\* end of a std::lock_guard scope: the owner releases the mutex
DrvUnlockNever(m, t) == m
DrvUnlock(m, t) == IF m = t THEN FREE ELSE m

\* the loop increment of the worker: r += threads
DrvNextRepByOne(r) == r + 1
DrvNextRep(r) == r + threads

\* A relerr value is a pure function of the dataset and of the hasher
\* parameters; it is modelled by the parameters' origin in the entropy pool.
RelErr(f, t) ==
    CASE f = IDX_MS -> <<params[r_[t]].ms_a, params[r_[t]].ms_b>>
      [] f = IDX_STAB -> h_tab[t].stab
      [] f = IDX_TORNADO_D4 -> h_tab[t].tor4
      [] f = IDX_RAPID32 -> <<params[r_[t]].rapid_seed>>

\* Poly32::set_params() / Poly64::set_params() of hash/poly.hpp, called by the
\* tabulation set_params(): the next coefficient comes from the entropy pool
PolySetParams(h, pos) == Append(h, pos)

\* the rows one repetition appends to buf: NAMES[f], r + 1, relerr
RECURSIVE RepRows(_, _)
RepRows(t, f) ==
    IF f >= NUM_FUNCS THEN <<>>
    ELSE <<[function |-> NAMES[f], rep |-> r_[t] + 1, relerr |-> RelErr(f, t), by |-> t]>>
         \o RepRows(t, f + 1)

\* state of a fresh process, for configuration <<kind, threads, R, out_ok>>
DrvStart(kind, T, reps, ok) ==
    /\ drv_kind = kind /\ threads = T /\ R = reps /\ out_ok = ok
    /\ pc_main = "open" /\ launched = 0 /\ joined = 0 /\ exit_code = RUNNING
    /\ rng_pos = 0
    /\ params = <<>>
    /\ pc = [t \in 0 .. T - 1 |-> "unborn"]
    /\ r_ = [t \in 0 .. T - 1 |-> t]
    /\ h_tab = [t \in 0 .. T - 1 |-> [stab |-> <<>>, tor4 |-> <<>>]]
    /\ buf = [t \in 0 .. T - 1 |-> <<>>]
    /\ wr = [t \in 0 .. T - 1 |-> 0]
    /\ n_ = [t \in 0 .. T - 1 |-> 0]
    /\ done = 0
    /\ rng_mtx = FREE /\ file_mtx = FREE /\ cout_mtx = FREE
    /\ out = <<>>
    /\ flushes = [t \in 0 .. T - 1 |-> 0]

\* the unguarded drivers are run with the configurations that stay small
DrvUnguardedConfigs == { <<1, 2>>, <<2, 2>> }
DrvRuns == { <<"a1", c>> : c \in DrvConfigs } \cup { <<"r1", c>> : c \in DrvUnguardedConfigs }

DrvInit ==
    /\ \E run \in DrvRuns, ok \in BOOLEAN :
          /\ run[1] \in DrvKinds
          /\ DrvStart(run[1], run[2][1], run[2][2], ok)
    /\ prev = NO_RUN

\* the runs compared with one another: a guarded driver, output file writable
DrvTwiceConfigs == { <<1, 2>>, <<2, 2>> }
DrvInitTwice ==
    /\ \E c \in DrvTwiceConfigs : DrvStart("a1", c[1], c[2], TRUE)
    /\ prev = NO_RUN

\* main: std::ofstream out(outfile); if (!out) return 1; header row
MainOpen ==
    /\ pc_main = "open"
    /\ IF out_ok
       THEN /\ out' = <<HEADER>>
            /\ pc_main' = "pregen"
            /\ UNCHANGED exit_code
       ELSE /\ pc_main' = "exit"
            /\ exit_code' = 1
            /\ UNCHANGED out
    /\ UNCHANGED <<drv_kind, threads, R, out_ok, launched, joined, rng_pos, params,
                   pc, r_, h_tab, buf, wr, n_, done, rng_mtx, file_mtx, cout_mtx,
                   flushes, prev>>

\* main: params[r] = { get_u64(), get_u64(), get_u64() } for r = 0 .. R-1
MainPregen ==
    /\ pc_main = "pregen"
    /\ params' = [r \in 0 .. R - 1 |->
                    [ms_a |-> rng_pos + 3 * r,
                     ms_b |-> rng_pos + 3 * r + 1,
                     rapid_seed |-> rng_pos + 3 * r + 2]]
    /\ rng_pos' = rng_pos + 3 * R
    /\ pc_main' = "launch"
    /\ UNCHANGED <<drv_kind, threads, R, out_ok, launched, joined, exit_code,
                   pc, r_, h_tab, buf, wr, n_, done, rng_mtx, file_mtx, cout_mtx,
                   out, flushes, prev>>

\* main: for (t = 0; t < threads; ++t) pool.emplace_back(worker, t)
MainLaunch ==
    /\ pc_main = "launch"
    /\ IF launched < threads
       THEN /\ pc' = [pc EXCEPT ![launched] = "loop"]
            /\ launched' = launched + 1
            /\ UNCHANGED pc_main
       ELSE /\ pc_main' = "join"
            /\ UNCHANGED <<pc, launched>>
    /\ UNCHANGED <<drv_kind, threads, R, out_ok, joined, exit_code, rng_pos, params,
                   r_, h_tab, buf, wr, n_, done, rng_mtx, file_mtx, cout_mtx,
                   out, flushes, prev>>

\* main: for (auto& th : pool) th.join()
MainJoin ==
    /\ pc_main = "join"
    /\ IF joined < threads
       THEN /\ pc[joined] = "done"
            /\ joined' = joined + 1
            /\ UNCHANGED pc_main
       ELSE /\ pc_main' = "finish"
            /\ UNCHANGED joined
    /\ UNCHANGED <<drv_kind, threads, R, out_ok, launched, exit_code, rng_pos, params,
                   pc, r_, h_tab, buf, wr, n_, done, rng_mtx, file_mtx, cout_mtx,
                   out, flushes, prev>>

\* main: { lock_guard io(cout_mtx); cout << "\n"; } cout << "Done.\n"; return 0
MainFinish ==
    /\ pc_main = "finish"
    /\ DrvCanLock(cout_mtx)
    /\ pc_main' = "exit"
    /\ exit_code' = 0
    /\ UNCHANGED <<drv_kind, threads, R, out_ok, launched, joined, rng_pos, params,
                   pc, r_, h_tab, buf, wr, n_, done, rng_mtx, file_mtx, cout_mtx,
                   out, flushes, prev>>

wvars_fixed == <<drv_kind, threads, R, out_ok, pc_main, launched, joined, exit_code,
                 params, prev>>

\* worker: the loop test r < R; the seeded hashers take params[r]
WLoop(t) ==
    /\ pc[t] = "loop"
    /\ IF r_[t] < R
       THEN pc' = [pc EXCEPT ![t] = IF drv_kind = "a1" THEN "lock_rng" ELSE "stab"]
       ELSE pc' = [pc EXCEPT ![t] = "lock_file"]
    /\ h_tab' = [h_tab EXCEPT ![t] = [stab |-> <<>>, tor4 |-> <<>>]]
    /\ UNCHANGED <<wvars_fixed, rng_pos, r_, buf, wr, n_, done,
                   rng_mtx, file_mtx, cout_mtx, out, flushes>>

\* worker ("a1" drivers): std::lock_guard<std::mutex> lk(rng_mtx)
WLockRng(t) ==
    /\ pc[t] = "lock_rng"
    /\ DrvCanLock(rng_mtx)
    /\ rng_mtx' = t
    /\ pc' = [pc EXCEPT ![t] = "stab"]
    /\ UNCHANGED <<wvars_fixed, rng_pos, r_, h_tab, buf, wr, n_, done,
                   file_mtx, cout_mtx, out, flushes>>

\* worker: h_stab.set_params() / tabms.set_params(coeffs), one pool draw a step
WDrawStab(t) ==
    /\ pc[t] = "stab"
    /\ h_tab' = [h_tab EXCEPT ![t].stab = PolySetParams(@, rng_pos)]
    /\ rng_pos' = rng_pos + 1
    /\ pc' = [pc EXCEPT ![t] =
                IF Len(h_tab[t].stab) + 1 = TabDraws THEN "tor4" ELSE "stab"]
    /\ UNCHANGED <<wvars_fixed, r_, buf, wr, n_, done,
                   rng_mtx, file_mtx, cout_mtx, out, flushes>>

\* worker: h_tor4.set_params() / tor4.set_params(coeffs), one pool draw a step;
\* the last one leaves the guarded block ("a1") and runs the sketches:
\* for each f, buf << NAMES[f] << "," << (r + 1) << "," << relerr << "\n"
WDrawTor4(t) ==
    /\ pc[t] = "tor4"
    /\ h_tab' = [h_tab EXCEPT ![t].tor4 = PolySetParams(@, rng_pos)]
    /\ rng_pos' = rng_pos + 1
    /\ IF Len(h_tab[t].tor4) + 1 = TabDraws
       THEN /\ pc' = [pc EXCEPT ![t] = "run"]
            /\ rng_mtx' = DrvUnlock(rng_mtx, t)
       ELSE UNCHANGED <<pc, rng_mtx>>
    /\ UNCHANGED <<wvars_fixed, r_, buf, wr, n_, done,
                   file_mtx, cout_mtx, out, flushes>>

\* worker: run every function over the keys, stage the rows, count the rep:
\* n = done.fetch_add(1) + 1
WRun(t) ==
    /\ pc[t] = "run"
    /\ buf' = [buf EXCEPT ![t] = @ \o RepRows(t, 0)]
    /\ done' = done + 1
    /\ n_' = [n_ EXCEPT ![t] = done + 1]
    /\ pc' = [pc EXCEPT ![t] = "progress"]
    /\ UNCHANGED <<wvars_fixed, rng_pos, r_, h_tab, wr,
                   rng_mtx, file_mtx, cout_mtx, out, flushes>>

\* worker: if (n % PROG_STEP == 0 || n == R) { lock_guard io(cout_mtx); print }
\* then r += threads
WProgress(t) ==
    /\ pc[t] = "progress"
    /\ (n_[t] % PROG_STEP = 0 \/ n_[t] = R) => DrvCanLock(cout_mtx)
    /\ r_' = [r_ EXCEPT ![t] = DrvNextRep(@)]
    /\ pc' = [pc EXCEPT ![t] = "loop"]
    /\ UNCHANGED <<wvars_fixed, rng_pos, h_tab, buf, wr, n_, done,
                   rng_mtx, file_mtx, cout_mtx, out, flushes>>

\* worker: std::lock_guard<std::mutex> fl(file_mtx)
WLockFile(t) ==
    /\ pc[t] = "lock_file"
    /\ DrvCanLock(file_mtx)
    /\ file_mtx' = t
    /\ flushes' = [flushes EXCEPT ![t] = @ + 1]
    /\ pc' = [pc EXCEPT ![t] = "write"]
    /\ UNCHANGED <<wvars_fixed, rng_pos, r_, h_tab, buf, wr, n_, done,
                   rng_mtx, cout_mtx, out>>

\* worker: out << buf.str(), the stream taking the text a row at a time;
\* the guard is released when all of it is written and the worker returns
WWrite(t) ==
    /\ pc[t] = "write"
    /\ IF wr[t] < Len(buf[t])
       THEN /\ out' = Append(out, buf[t][wr[t] + 1])
            /\ wr' = [wr EXCEPT ![t] = @ + 1]
            /\ UNCHANGED <<pc, file_mtx>>
       ELSE /\ file_mtx' = DrvUnlock(file_mtx, t)
            /\ pc' = [pc EXCEPT ![t] = "done"]
            /\ UNCHANGED <<out, wr>>
    /\ UNCHANGED <<wvars_fixed, rng_pos, r_, h_tab, buf, n_, done,
                   rng_mtx, cout_mtx, flushes>>

\* the CSV as post-processing reads it: (function, rep) -> relerr values
RowKeys == { <<NAMES[f], rep>> : f \in 0 .. NUM_FUNCS - 1, rep \in 1 .. R }
DataRows == { i \in 1 .. Len(out) : out[i] # HEADER }
CsvMap == [k \in RowKeys |->
             { out[i].relerr : i \in { j \in DataRows :
                                   <<out[j].function, out[j].rep>> = k } }]

\* the program is run again: same pool content, dataset, R and thread count
DrvRerun ==
    /\ pc_main = "exit" /\ exit_code = 0
    /\ prev = NO_RUN
    /\ prev' = CsvMap
    /\ \E kind \in {drv_kind}, T \in {threads}, reps \in {R}, ok \in {out_ok} :
        /\ drv_kind' = kind /\ threads' = T /\ R' = reps /\ out_ok' = ok
        /\ pc_main' = "open" /\ launched' = 0 /\ joined' = 0 /\ exit_code' = RUNNING
        /\ rng_pos' = 0
        /\ params' = <<>>
        /\ pc' = [t \in 0 .. T - 1 |-> "unborn"]
        /\ r_' = [t \in 0 .. T - 1 |-> t]
        /\ h_tab' = [t \in 0 .. T - 1 |-> [stab |-> <<>>, tor4 |-> <<>>]]
        /\ buf' = [t \in 0 .. T - 1 |-> <<>>]
        /\ wr' = [t \in 0 .. T - 1 |-> 0]
        /\ n_' = [t \in 0 .. T - 1 |-> 0]
        /\ done' = 0
        /\ rng_mtx' = FREE /\ file_mtx' = FREE /\ cout_mtx' = FREE
        /\ out' = <<>>
        /\ flushes' = [t \in 0 .. T - 1 |-> 0]

DrvIdle == DrvStart("a1", 0, 0, FALSE) /\ prev = NO_RUN

\* --------------------------------------------- include/core/randomgen.hpp
\* rng::RandomPool, the process-wide entropy pool. A byte has ByteBits bits;
\* u32 is four bytes and u64 eight, as in the build.
BYTE == 2 ^ ByteBits
U32_BYTES == 4
U64_BYTES == 8

\* total content of the *.bin files of the seed directory, in file order
SeedDirs == { <<>>, <<1, 2, 3>>, <<3, 0, 1, 2, 1>>, <<2, 1, 0, 3, 1, 2, 3, 0, 1, 1>> }

PoolThreads == {1, 2}
PoolApis == {"u8", "boolean", "u32", "u64"}
\* the draws each thread makes: only the first one draws 64-bit values
PoolApisOf(t) == IF t = 1 THEN PoolApis ELSE PoolApis \ {"u64"}

VARIABLES
    seed_dir,       \* what init() will read
    initialized_, bytes_, pos_, bit_bucket_, bit_pos_,
    mu_,            \* owner of the pool mutex, or FREE
    p_pc,           \* thread -> position inside its draw call
    p_api,          \* thread -> the call it is in
    p_left,         \* thread -> u8() calls its u32()/u64() still has to make
    p_a,            \* thread -> the accumulator a of u32()/u64()
    p_ret,          \* thread -> value its last call returned
    p_from,         \* ghost: thread -> pos_ when its current/last call started
    p_got,          \* ghost: thread -> pool positions its current/last call consumed
    p_log,          \* ghost: every position served, in serving order
    p_users,        \* ghost: threads that have called the pool
    p_n             \* ghost: draw calls started

poolvars == <<seed_dir, initialized_, bytes_, pos_, bit_bucket_, bit_pos_, mu_,
              p_pc, p_api, p_left, p_a, p_ret, p_from, p_got, p_log, p_users, p_n>>

\* std::scoped_lock lk(mu_): blocks until the mutex is free
PoolCanLockAlways(m) == TRUE
PoolCanLock(m) == m = FREE

\* advance(n): pos_ += n; if (pos_ >= bytes_.size()) pos_ %= bytes_.size()
Advance(pos, n, size) == IF pos + n >= size THEN (pos + n) % size ELSE pos + n

\* a = (a << 8) | u8(), in an accumulator of `bytes` bytes
ShiftInLittle(a, v, bytes) == (a \div BYTE) + v * (BYTE ^ (bytes - 1))
ShiftIn(a, v, bytes) == ((a * BYTE) % (BYTE ^ bytes)) + v

PoolInit ==
    /\ seed_dir \in SeedDirs
    /\ initialized_ = FALSE /\ bytes_ = <<>> /\ pos_ = 0
    /\ bit_bucket_ = 0 /\ bit_pos_ = 8
    /\ mu_ = FREE
    /\ p_pc = [t \in PoolThreads |-> "idle"]
    /\ p_api = [t \in PoolThreads |-> "u8"]
    /\ p_left = [t \in PoolThreads |-> 0]
    /\ p_a = [t \in PoolThreads |-> 0]
    /\ p_ret = [t \in PoolThreads |-> 0]
    /\ p_from = [t \in PoolThreads |-> 0]
    /\ p_got = [t \in PoolThreads |-> <<>>]
    /\ p_log = <<>>
    /\ p_users = {}
    /\ p_n = 0

\* a thread enters u8(), boolean(), u32() or u64()
PoolCall(t, api) ==
    /\ p_pc[t] = "idle"
    /\ p_n < MaxDraws
    /\ p_n' = p_n + 1
    /\ p_api' = [p_api EXCEPT ![t] = api]
    /\ p_left' = [p_left EXCEPT ![t] =
                    CASE api = "u32" -> U32_BYTES [] api = "u64" -> U64_BYTES [] OTHER -> 1]
    /\ p_a' = [p_a EXCEPT ![t] = 0]
    /\ p_from' = [p_from EXCEPT ![t] = pos_]
    /\ p_got' = [p_got EXCEPT ![t] = <<>>]
    /\ p_users' = p_users \cup {t}
    /\ p_pc' = [p_pc EXCEPT ![t] = "ensure"]
    /\ UNCHANGED <<seed_dir, initialized_, bytes_, pos_, bit_bucket_, bit_pos_, mu_,
                   p_ret, p_log>>

\* ensure(): if (!initialized_) init(); init() locks mu_, returns if already
\* initialised, throws when the directory holds no byte, else loads the bytes
PoolEnsure(t) ==
    /\ p_pc[t] = "ensure"
    /\ ~initialized_
    /\ PoolCanLock(mu_)
    /\ IF seed_dir = <<>>
       THEN /\ p_pc' = [p_pc EXCEPT ![t] = "threw"]
            /\ UNCHANGED <<initialized_, bytes_, pos_, bit_bucket_, bit_pos_>>
       ELSE /\ bytes_' = seed_dir
            /\ pos_' = 0
            /\ bit_bucket_' = 0
            /\ bit_pos_' = 8
            /\ initialized_' = TRUE
            /\ UNCHANGED p_pc
    /\ UNCHANGED <<seed_dir, mu_, p_api, p_left, p_a, p_ret, p_from, p_got, p_log,
                   p_users, p_n>>

\* ensure() finding the pool initialised, then std::scoped_lock lk(mu_) of
\* u8() and boolean()
PoolLock(t) ==
    /\ p_pc[t] = "ensure"
    /\ initialized_
    /\ PoolCanLock(mu_)
    /\ mu_' = t
    /\ p_pc' = [p_pc EXCEPT ![t] = "locked"]
    /\ UNCHANGED <<seed_dir, initialized_, bytes_, pos_, bit_bucket_, bit_pos_,
                   p_api, p_left, p_a, p_ret, p_from, p_got, p_log, p_users, p_n>>

\* u8() under the lock: v = bytes_[pos_]; advance(1); return v. Inside u32()
\* and u64() the byte is shifted into a, and the last one returns a.
PoolU8(t) ==
    /\ p_pc[t] = "locked"
    /\ p_api[t] # "boolean"
    /\ LET v == bytes_[pos_ + 1]
           a == IF p_api[t] = "u8" THEN v
                ELSE ShiftIn(p_a[t], v, IF p_api[t] = "u32" THEN U32_BYTES ELSE U64_BYTES)
       IN /\ p_a' = [p_a EXCEPT ![t] = a]
          /\ IF p_left[t] = 1
             THEN /\ p_ret' = [p_ret EXCEPT ![t] = a]
                  /\ p_pc' = [p_pc EXCEPT ![t] = "idle"]
             ELSE /\ p_pc' = [p_pc EXCEPT ![t] = "ensure"]
                  /\ UNCHANGED p_ret
    /\ p_left' = [p_left EXCEPT ![t] = @ - 1]
    /\ p_got' = [p_got EXCEPT ![t] = Append(@, pos_)]
    /\ p_log' = Append(p_log, pos_)
    /\ pos_' = Advance(pos_, 1, Len(bytes_))
    /\ mu_' = IF mu_ = t THEN FREE ELSE mu_
    /\ UNCHANGED <<seed_dir, initialized_, bytes_, bit_bucket_, bit_pos_,
                   p_api, p_from, p_users, p_n>>

\* boolean() under the lock: refill the bucket from bytes_[pos_] when all 8
\* bits are used, then hand out its lowest bit
PoolBoolean(t) ==
    /\ p_pc[t] = "locked"
    /\ p_api[t] = "boolean"
    /\ LET refill == bit_pos_ = 8
           bucket == IF refill THEN bytes_[pos_ + 1] ELSE bit_bucket_
           bitpos == IF refill THEN 0 ELSE bit_pos_
       IN /\ p_ret' = [p_ret EXCEPT ![t] = bucket % 2]
          /\ bit_bucket_' = bucket \div 2
          /\ bit_pos_' = bitpos + 1
          /\ pos_' = IF refill THEN Advance(pos_, 1, Len(bytes_)) ELSE pos_
          /\ p_log' = IF refill THEN Append(p_log, pos_) ELSE p_log
          /\ p_got' = [p_got EXCEPT ![t] = IF refill THEN Append(@, pos_) ELSE @]
    /\ p_left' = [p_left EXCEPT ![t] = 0]
    /\ p_pc' = [p_pc EXCEPT ![t] = "idle"]
    /\ mu_' = IF mu_ = t THEN FREE ELSE mu_
    /\ UNCHANGED <<seed_dir, initialized_, bytes_, p_api, p_a, p_from, p_users, p_n>>

PoolIdle ==
    /\ seed_dir = <<>>
    /\ initialized_ = FALSE /\ bytes_ = <<>> /\ pos_ = 0
    /\ bit_bucket_ = 0 /\ bit_pos_ = 8
    /\ mu_ = FREE
    /\ p_pc = [t \in PoolThreads |-> "idle"]
    /\ p_api = [t \in PoolThreads |-> "u8"]
    /\ p_left = [t \in PoolThreads |-> 0]
    /\ p_a = [t \in PoolThreads |-> 0]
    /\ p_ret = [t \in PoolThreads |-> 0]
    /\ p_from = [t \in PoolThreads |-> 0]
    /\ p_got = [t \in PoolThreads |-> <<>>]
    /\ p_log = <<>>
    /\ p_users = {}
    /\ p_n = 0

\* ------------------------------------------------ 64-bit unsigned arithmetic
\* A std::uint64_t is kept as its eight bytes, least significant first, so
\* that the arithmetic of splitmix64 is exact.
\* a value below 2^31 widened to 64 bits
U64Of(n) == [i \in 1 .. 8 |-> IF i <= 4 THEN (n \div (256 ^ (i - 1))) % 256 ELSE 0]

RECURSIVE XorBits(_, _, _)
XorBits(a, b, bits) ==
    IF bits = 0 THEN 0
    ELSE ((a + b) % 2) + 2 * XorBits(a \div 2, b \div 2, bits - 1)

U64Xor(a, b) == [i \in 1 .. 8 |-> XorBits(a[i], b[i], 8)]

RECURSIVE U64AddFrom(_, _, _, _)
U64AddFrom(a, b, i, carry) ==
    IF i > 8 THEN <<>>
    ELSE <<(a[i] + b[i] + carry) % 256>>
         \o U64AddFrom(a, b, i + 1, (a[i] + b[i] + carry) \div 256)

U64Add(a, b) == U64AddFrom(a, b, 1, 0)

\* x >> k
U64Shr(a, k) ==
    LET q == k \div 8
        r == k % 8
        at(i) == IF i <= 8 THEN a[i] ELSE 0
    IN [i \in 1 .. 8 |-> (at(i + q) \div (2 ^ r)) + (at(i + q + 1) % (2 ^ r)) * (2 ^ (8 - r))]

RECURSIVE U64MulColumn(_, _, _, _)
U64MulColumn(a, b, p, i) ==
    IF i > p THEN 0 ELSE a[i] * b[p + 1 - i] + U64MulColumn(a, b, p, i + 1)

RECURSIVE U64MulFrom(_, _, _, _)
U64MulFrom(a, b, p, carry) ==
    IF p > 8 THEN <<>>
    ELSE LET s == U64MulColumn(a, b, p, 1) + carry
         IN <<s % 256>> \o U64MulFrom(a, b, p + 1, s \div 256)

\* a * b mod 2^64
U64Mul(a, b) == U64MulFrom(a, b, 1, 0)

\* ------------------------------------------------- include/core/a1.hpp
\* static inline std::uint64_t splitmix64(std::uint64_t x)
splitmix64(x) ==
    LET x1 == U64Add(x, <<21, 124, 74, 127, 185, 121, 55, 158>>)
        x2 == U64Mul(U64Xor(x1, U64Shr(x1, 30)), <<185, 229, 228, 28, 109, 71, 88, 191>>)
        x3 == U64Mul(U64Xor(x2, U64Shr(x2, 27)), <<235, 17, 49, 19, 187, 73, 208, 148>>)
    IN U64Xor(x3, U64Shr(x3, 31))

\* store_le_u32: the four bytes of v, least significant first
store_le_u32(v) ==
    <<v % 256, (v \div 256) % 256, (v \div 65536) % 256, (v \div 16777216) % 256>>

\* load_le_u32 of the drivers and tests: b[0] | b[1] << 8 | b[2] << 16 | b[3] << 24
load_le_u32(b) == b[1] + b[2] * 256 + b[3] * 65536 + b[4] * 16777216

\* a1_repeats: ceil(key / 100) as (key + 99) / 100
a1_repeatsFloor(key) == (key + 100) \div 100
a1_repeats(key) == (key + 99) \div 100

\* the 4-byte record idx (0-based) of a byte buffer
Record4(b, idx) == SubSeq(b, idx * 4 + 1, idx * 4 + 4)

\* the buffer b with the 4-byte record at item slot idx (0-based) replaced
PutRecord4(b, idx, rec) ==
    [i \in 1 .. Len(b) |-> IF i > idx * 4 /\ i <= idx * 4 + 4 THEN rec[i - idx * 4] ELSE b[i]]

\* ------------------------------- include/core/a1.hpp, include/core/a2.hpp
\* The dataset providers A1, A1Split, A2, A2Split, built step by step as
\* their constructors run, and the cursor handed out by make_stream().
DSKinds == {"A1", "A1Split", "A2", "A2Split"}

\* N given to A1 / A1Split
A1Sizes == {0, 1, 2, 3, 7, 8, 206}

\* N given to A1Split
SplitSizes == {0, 1, 2, 3, 7, 8}

\* split seeds: 1, 123456789 and the default 0xA5A5A5A5A5A5A5A5 of A2Split
SplitSeeds == { U64Of(1), U64Of(123456789), <<165, 165, 165, 165, 165, 165, 165, 165>> }

\* content of block0.rng: missing, too short, two items, five items and a half
NO_FILE == [exists |-> FALSE, bytes |-> <<>>]
A2Files == { NO_FILE,
             [exists |-> TRUE, bytes |-> <<9, 9, 9>>],
             [exists |-> TRUE, bytes |-> <<1, 0, 0, 0, 2, 1, 0, 0>>],
             [exists |-> TRUE, bytes |-> <<5, 0, 0, 0, 6, 0, 0, 0, 7, 0, 0, 0, 8, 0, 0, 0,
                                          9, 0, 0, 0, 1, 1>>] }

\* static constexpr std::uint64_t A2_SAMPLE_SEED = 0xA2A2A2A2DEADBEEF
A2_SAMPLE_SEED == <<239, 190, 173, 222, 162, 162, 162, 162>>

VARIABLES
    ds_kind,       \* the provider being constructed
    ds_N,          \* constructor argument N (A1, A1Split)
    ds_seed,       \* constructor argument split_seed (A1Split, A2Split)
    ds_file,       \* content of the file A2 reads
    ds_pc,         \* position inside the constructor
    N_, buf_,      \* A1 / A2 members
    pool_,         \* A2 member
    A_buf_, B_buf_, A_items_, B_items_,   \* split members
    ds_pos, ds_v,  \* fill_buffer, first half: pos, v
    ds_key, ds_rep, ds_p,   \* fill_buffer, second half: key, rep, p
    ds_idx,        \* split_into_groups: idx
    ds_i,          \* build_from_file: i
    ds_gen,        \* build_from_file: state of the generator gen
    ds_run,        \* ghost: 1 for the first construction, 2 for the second
    ds_prev        \* ghost: what the first construction produced, or DS_NONE

dsvars == <<ds_kind, ds_N, ds_seed, ds_file, ds_pc, N_, buf_, pool_,
            A_buf_, B_buf_, A_items_, B_items_, ds_pos, ds_v, ds_key, ds_rep, ds_p,
            ds_idx, ds_i, ds_gen, ds_run, ds_prev>>

\* everything a constructor starts from, for given inputs
DSFresh(kind, N, seed, file) ==
    /\ ds_kind = kind /\ ds_N = N /\ ds_seed = seed /\ ds_file = file
    /\ ds_pc = "ctor"
    /\ N_ = 0 /\ buf_ = <<>> /\ pool_ = <<>>
    /\ A_buf_ = <<>> /\ B_buf_ = <<>> /\ A_items_ = 0 /\ B_items_ = 0
    /\ ds_pos = 0 /\ ds_v = 1 /\ ds_key = 1 /\ ds_rep = 0 /\ ds_p = 0
    /\ ds_idx = 0 /\ ds_i = 0 /\ ds_gen = 0

\* no provider constructed before this one
DS_NONE == [N |-> -1, buf |-> <<>>, A |-> <<>>, B |-> <<>>, sizeA |-> 0, sizeB |-> 0]

DSInit ==
    /\ \E kind \in DSKinds, N \in A1Sizes, seed \in SplitSeeds, file \in A2Files :
          /\ kind \in {"A1", "A2"} => seed = U64Of(1)
          /\ kind \in {"A1", "A1Split"} => file = NO_FILE
          /\ kind = "A1Split" => N \in SplitSizes
          /\ kind \in {"A2", "A2Split"} => N = 0
          /\ DSFresh(kind, N, seed, file)
    /\ ds_run = 1
    /\ ds_prev = DS_NONE

ds_inputs == <<ds_kind, ds_N, ds_seed, ds_file, ds_run, ds_prev>>

\* A1(N): N_(N), buf_(N * 4); throws when N is 0 (A1Split checks the same
\* before building its base A1)
A1Ctor ==
    /\ ds_pc = "ctor"
    /\ ds_kind \in {"A1", "A1Split"}
    /\ N_' = ds_N
    /\ IF ds_N = 0
       THEN /\ ds_pc' = "threw"
            /\ UNCHANGED buf_
       ELSE /\ ds_pc' = "first"
            /\ buf_' = [i \in 1 .. ds_N * 4 |-> 0]
    /\ UNCHANGED <<ds_inputs, pool_, A_buf_, B_buf_, A_items_, B_items_,
                   ds_pos, ds_v, ds_key, ds_rep, ds_p, ds_idx, ds_i, ds_gen>>

\* fill_buffer, first half: while (pos + 1 < half) write (v, v); then one
\* copy of v if a slot is left; half = N_ / 2
A1FillFirst ==
    /\ ds_pc = "first"
    /\ LET half == N_ \div 2
       IN IF ds_pos + 1 < half
          THEN /\ buf_' = PutRecord4(PutRecord4(buf_, ds_pos, store_le_u32(ds_v)),
                                     ds_pos + 1, store_le_u32(ds_v))
               /\ ds_pos' = ds_pos + 2
               /\ ds_v' = ds_v + 1
               /\ UNCHANGED <<ds_pc, ds_p>>
          ELSE /\ IF ds_pos < half
                  THEN /\ buf_' = PutRecord4(buf_, ds_pos, store_le_u32(ds_v))
                       /\ ds_pos' = ds_pos + 1
                       /\ ds_v' = ds_v + 1
                  ELSE UNCHANGED <<buf_, ds_pos, ds_v>>
               /\ ds_p' = half
               /\ ds_pc' = "second"
    /\ UNCHANGED <<ds_inputs, N_, pool_, A_buf_, B_buf_, A_items_, B_items_,
                   ds_key, ds_rep, ds_idx, ds_i, ds_gen>>

\* fill_buffer, second half: for (p = half; p < N_; ++p) write key;
\* if (++rep >= a1_repeats(key)) { rep = 0; ++key; }
A1FillSecond ==
    /\ ds_pc = "second"
    /\ IF ds_p < N_
       THEN /\ buf_' = PutRecord4(buf_, ds_p, store_le_u32(ds_key))
            /\ ds_p' = ds_p + 1
            /\ IF ds_rep + 1 >= a1_repeats(ds_key)
               THEN ds_rep' = 0 /\ ds_key' = ds_key + 1
               ELSE ds_rep' = ds_rep + 1 /\ UNCHANGED ds_key
            /\ UNCHANGED ds_pc
       ELSE /\ ds_pc' = IF ds_kind = "A1" THEN "ready" ELSE "split"
            /\ UNCHANGED <<buf_, ds_p, ds_rep, ds_key>>
    /\ UNCHANGED <<ds_inputs, N_, pool_, A_buf_, B_buf_, A_items_, B_items_,
                   ds_pos, ds_v, ds_idx, ds_i, ds_gen>>

\* split_into_groups: g = splitmix64(seed + idx) & 1; item idx is appended
\* to A_buf_ when g is 0, to B_buf_ otherwise; the item counts at the end
SplitGroupHighBit(seed, idx) == splitmix64(U64Add(seed, U64Of(idx)))[8] \div 128
SplitGroup(seed, idx) == splitmix64(U64Add(seed, U64Of(idx)))[1] % 2

SplitIntoGroups ==
    /\ ds_pc = "split"
    /\ IF ds_idx < Len(buf_) \div 4
       THEN /\ IF SplitGroup(ds_seed, ds_idx) = 0
               THEN A_buf_' = A_buf_ \o Record4(buf_, ds_idx) /\ UNCHANGED B_buf_
               ELSE B_buf_' = B_buf_ \o Record4(buf_, ds_idx) /\ UNCHANGED A_buf_
            /\ ds_idx' = ds_idx + 1
            /\ UNCHANGED <<ds_pc, A_items_, B_items_>>
       ELSE /\ A_items_' = Len(A_buf_) \div 4
            /\ B_items_' = Len(B_buf_) \div 4
            /\ ds_pc' = "ready"
            /\ UNCHANGED <<A_buf_, B_buf_, ds_idx>>
    /\ UNCHANGED <<ds_inputs, N_, buf_, pool_, ds_pos, ds_v, ds_key, ds_rep, ds_p, ds_i, ds_gen>>


\* std::mt19937_64 gen(seed) and std::uniform_int_distribution pick(lo, hi)
\* of the C++ library: the state after seeding depends on the seed alone and
\* each pick on the state alone. A 16-bit congruential generator stands for
\* it; `entropy` is what a generator not seeded by a constant would add.
GenSeededFromEntropy(seed, entropy) == (seed[1] + 256 * seed[2] + entropy) % 65536
GenSeeded(seed, entropy) == seed[1] + 256 * seed[2]
GenNext(g) == (g * 25173 + 13849) % 65536
Pick(g, lo, hi) == lo + ((g \div 16) % (hi - lo + 1))

\* A2::build_from_file up to the sampling loop: open, size, pool_, buf_, gen
A2BuildFromFile ==
    /\ ds_pc = "ctor"
    /\ ds_kind \in {"A2", "A2Split"}
    /\ LET available_items == Len(ds_file.bytes) \div 4
           pool_items == IF available_items < POOL_N THEN available_items ELSE POOL_N
       IN IF ~ds_file.exists \/ available_items = 0
          THEN /\ ds_pc' = "threw"
               /\ UNCHANGED <<pool_, buf_, ds_gen>>
          ELSE /\ pool_' = SubSeq(ds_file.bytes, 1, pool_items * 4)
               /\ buf_' = [i \in 1 .. STREAM_N * 4 |-> 0]
               /\ ds_gen' = GenSeeded(A2_SAMPLE_SEED, ds_run)
               /\ ds_pc' = "sample"
    /\ UNCHANGED <<ds_inputs, N_, A_buf_, B_buf_, A_items_, B_items_,
                   ds_pos, ds_v, ds_key, ds_rep, ds_p, ds_idx, ds_i>>

\* build_from_file, the loop: idx = pick(gen); copy the 4 bytes of pool item
\* idx to stream slot i; then N_ = STREAM_N
A2Sample ==
    /\ ds_pc = "sample"
    /\ IF ds_i < STREAM_N
       THEN /\ ds_gen' = GenNext(ds_gen)
            /\ buf_' = PutRecord4(buf_, ds_i,
                          Record4(pool_, Pick(GenNext(ds_gen), 0, Len(pool_) \div 4 - 1)))
            /\ ds_i' = ds_i + 1
            /\ UNCHANGED <<N_, ds_pc>>
       ELSE /\ N_' = STREAM_N
            /\ ds_pc' = IF ds_kind = "A2" THEN "ready" ELSE "split"
            /\ UNCHANGED <<ds_gen, buf_, ds_i>>
    /\ UNCHANGED <<ds_inputs, pool_, A_buf_, B_buf_, A_items_, B_items_,
                   ds_pos, ds_v, ds_key, ds_rep, ds_p, ds_idx>>

\* what a constructed provider exposes: size(s) and buffer(s)
DSObject ==
    [N |-> N_, buf |-> buf_, A |-> A_buf_, B |-> B_buf_,
     sizeA |-> A_items_, sizeB |-> B_items_]

DSIdle ==
    /\ DSFresh("A1", 0, U64Of(1), NO_FILE)
    /\ ds_run = 1
    /\ ds_prev = DS_NONE


\* ------------- cursors: a1.hpp StreamPtr, r1.hpp Stream20, r2.hpp StreamVar,
\* a1_mixed_materialized.hpp BufferStream
CursorKinds == {"StreamPtr", "Stream20", "StreamVar", "BufferStream"}

\* bytes of one record: 4 for StreamPtr and BufferStream, 20 for Stream20
RecordWidth(kind) == IF kind = "Stream20" THEN 20 ELSE 4

\* the caller's out_ptr / out_len before its first next(): not initialised
CallerGarbage == { <<-1, 0>>, <<12345, 99>> }

VARIABLES
    c_kind,        \* class of the cursor, "none" before it is made
    c_base,        \* the bytes base_ points at
    c_idx,         \* StreamVar: the (offset, len) pairs idx_ points at
    c_has_idx,     \* StreamVar: idx_ is not null
    sp_n, sp_i,    \* n_ / count_ and i_ / idx_
    out_ptr, out_len,   \* the caller's variables; out_ptr as an offset from base_
    c_ret,         \* what the last next() returned
    c_seen,        \* ghost: <<offset, len>> of every record yielded
    c_recs,        \* ghost: the records inserted in the buffer, in order
    c_after        \* ghost: next() calls made after exhaustion

curvars == <<c_kind, c_base, c_idx, c_has_idx, sp_n, sp_i, out_ptr, out_len,
             c_ret, c_seen, c_recs, c_after>>

CurIdle ==
    /\ c_kind = "none" /\ c_base = <<>> /\ c_idx = <<>> /\ c_has_idx = FALSE
    /\ sp_n = 0 /\ sp_i = 0 /\ out_ptr = -1 /\ out_len = 0
    /\ c_ret = FALSE /\ c_seen = <<>> /\ c_recs = <<>> /\ c_after = 0

\* the 4-byte records of a buffer of n items, in order
RecordsOf4(b, n) == [k \in 1 .. n |-> Record4(b, k - 1)]

\* make_stream() / make_streamA() / make_streamB(): StreamPtr(buffer, items)
MakeStream(which) ==
    /\ ds_pc = "ready"
    /\ ds_run = 1
    /\ c_kind = "none"
    /\ which = "base" <=> ds_kind \in {"A1", "A2"}
    /\ LET b == CASE which = "base" -> buf_ [] which = "A" -> A_buf_ [] which = "B" -> B_buf_
           n == CASE which = "base" -> N_ [] which = "A" -> A_items_ [] which = "B" -> B_items_
       IN /\ c_base' = b
          /\ sp_n' = n
          /\ c_recs' = RecordsOf4(b, n)
    /\ c_kind' = "StreamPtr"
    /\ sp_i' = 0
    /\ \E g \in CallerGarbage : out_ptr' = g[1] /\ out_len' = g[2]
    /\ UNCHANGED <<c_idx, c_has_idx, c_ret, c_seen, c_after>>
    /\ UNCHANGED dsvars

\* a record written by whoever fills a raw buffer: byte j of record k
RawByte(k, j) == (k * 16 + j) % 256
RECURSIVE RawRecords(_, _, _)
RawRecords(kind, k, n) ==
    IF k > n THEN <<>>
    ELSE <<[j \in 1 .. (IF kind = "StreamVar" THEN k ELSE RecordWidth(kind)) |->
              RawByte(k, j)]>> \o RawRecords(kind, k + 1, n)

RECURSIVE Flatten(_)
Flatten(recs) == IF recs = <<>> THEN <<>> ELSE Head(recs) \o Flatten(Tail(recs))

\* offsets and lengths of the records in the flat buffer
RECURSIVE OffsetsOf(_, _)
OffsetsOf(recs, off) ==
    IF recs = <<>> THEN <<>>
    ELSE <<<<off, Len(Head(recs))>>>> \o OffsetsOf(Tail(recs), off + Len(Head(recs)))

\* a cursor constructed directly: Stream20(base, n), StreamVar(base, idx),
\* BufferStream(base, count), StreamPtr(base, n); StreamVar() has no idx_
CursorOpen(kind, n, with_idx) ==
    /\ ds_pc = "ctor" /\ ds_run = 1
    /\ c_kind = "none"
    /\ with_idx \/ (kind = "StreamVar" /\ n = 0)
    /\ LET recs == RawRecords(kind, 1, n)
       IN /\ c_recs' = recs
          /\ c_base' = Flatten(recs)
          /\ c_idx' = IF kind = "StreamVar" THEN OffsetsOf(recs, 0) ELSE <<>>
    /\ c_has_idx' = (kind = "StreamVar" /\ with_idx)
    /\ c_kind' = kind
    /\ sp_n' = n
    /\ sp_i' = 0
    /\ \E g \in CallerGarbage : out_ptr' = g[1] /\ out_len' = g[2]
    /\ UNCHANGED <<c_ret, c_seen, c_after>>
    /\ ds_pc' = "raw"
    /\ UNCHANGED <<ds_inputs, N_, buf_, pool_, A_buf_, B_buf_, A_items_, B_items_,
                   ds_pos, ds_v, ds_key, ds_rep, ds_p, ds_idx, ds_i, ds_gen>>

\* the exhaustion test of next(): i_ >= n_ (StreamVar: !idx_ || i_ >= idx_->size())
StreamExhaustedLate(kind, has_idx, i, n) ==
    IF kind = "StreamVar" THEN ~has_idx \/ i > n ELSE i > n
StreamExhausted(kind, has_idx, i, n) ==
    IF kind = "StreamVar" THEN ~has_idx \/ i >= n ELSE i >= n

\* next(out_ptr, out_len)
StreamNext ==
    /\ c_kind # "none"
    /\ IF StreamExhausted(c_kind, c_has_idx, sp_i, sp_n)
       THEN /\ c_after < MaxAfter
            /\ c_after' = c_after + 1
            /\ c_ret' = FALSE
            /\ UNCHANGED <<sp_i, out_ptr, out_len, c_seen>>
       ELSE /\ IF c_kind = "StreamVar"
               THEN /\ out_ptr' = IF sp_i < Len(c_idx) THEN c_idx[sp_i + 1][1] ELSE Len(c_base)
                    /\ out_len' = IF sp_i < Len(c_idx) THEN c_idx[sp_i + 1][2] ELSE 0
               ELSE /\ out_ptr' = sp_i * RecordWidth(c_kind)
                    /\ out_len' = RecordWidth(c_kind)
            /\ sp_i' = sp_i + 1
            /\ c_ret' = TRUE
            /\ c_seen' = Append(c_seen, <<out_ptr', out_len'>>)
            /\ UNCHANGED c_after
    /\ UNCHANGED <<c_kind, c_base, c_idx, c_has_idx, sp_n, c_recs>>
    /\ UNCHANGED dsvars


\* the same provider is constructed a second time over the same input
DSReload ==
    /\ ds_pc = "ready"
    /\ ds_run = 1
    /\ c_kind = "none"
    /\ ds_run' = 2
    /\ ds_prev' = DSObject
    /\ ds_pc' = "ctor"
    /\ N_' = 0 /\ buf_' = <<>> /\ pool_' = <<>>
    /\ A_buf_' = <<>> /\ B_buf_' = <<>> /\ A_items_' = 0 /\ B_items_' = 0
    /\ ds_pos' = 0 /\ ds_v' = 1 /\ ds_key' = 1 /\ ds_rep' = 0 /\ ds_p' = 0
    /\ ds_idx' = 0 /\ ds_i' = 0 /\ ds_gen' = 0
    /\ UNCHANGED <<ds_kind, ds_N, ds_seed, ds_file>>

\* ===================================================================
\* Hash families: hashfn::MS (src/include/hash/ms.hpp) and
\* hashfn::SimpleTab32 (src/include/hash/simpletab32.hpp)
\* ===================================================================

\* arguments given to MS::set_params (64-bit words at model width) and keys
\* hashed; they include the worked examples (2, 5) with x = 0, (3, 0) with x = 1
MSParamInputs == {0, 2, 3, TWO32, TWO64 - 2, TWO64 - 1}
MSOffsetInputs == {0, 5, TWO64 - 1}
MSKeyInputs   == Word32

\* std::array<std::array<std::uint32_t, 4>, 256>: 256 inner arrays of 4 words,
\* TAB_WORDS words of storage in all
TAB_INNER == 4
TAB_OUTER == 256
TAB_WORDS == TAB_OUTER * TAB_INNER
\* the loops of set_params and hash: i over 4 byte positions, j over 256 byte values
TAB_POSITIONS == 4
TAB_BYTEVALUES == 256

\* keys given to SimpleTab32::hash
TabKeys == {0, 4, 259, 1024, 16909060}

\* the two ways a build treats an inner subscript beyond the inner array's
\* 4 elements: plain address arithmetic inside the enclosing object, or a
\* checked subscript that ends the process
TabBuilds == {"flat", "checked"}

VARIABLES
    a_,         \* MS::a_  (64-bit)
    b_,         \* MS::b_
    ms_given,   \* arguments of the last set_params call, <<>> before the first
    ms_x,       \* argument of the last MS::hash call, -1 before the first
    ms_ret,     \* its return value
    tab_build,  \* how this build treats the out-of-range inner subscript
    T_,         \* SimpleTab32::T_ as the words of its storage, in address order
    tab_pc,     \* "fresh" (T_{}), "ready" (set_params returned), "aborted"
    tab_x,      \* argument of the last SimpleTab32::hash call, -1 before the first
    tab_ret,    \* its return value
    tab_reads   \* the storage words that call read, in order

hashvars == <<a_, b_, ms_given, ms_x, ms_ret, tab_build, T_, tab_pc, tab_x, tab_ret, tab_reads>>

\* A 32-bit word of the table is kept symbolic: the set of Poly32 evaluation
\* points whose values are XORed together in it (0 is the empty set).
Poly32Eval(x) == {x}

Xor32(s, t) == (s \ t) \cup (t \ s)

\* address of T_[i][j] in words from the start of T_
TabCell(i, j) == TAB_INNER * i + j

\* static_cast<std::uint8_t>(x) after i shifts by 8
TabByte(x, i) == (x \div (256 ^ i)) % 256

HashInit ==
    /\ a_ = 1 /\ b_ = 0
    /\ ms_given = <<>> /\ ms_x = -1 /\ ms_ret = -1
    /\ tab_build \in TabBuilds
    /\ T_ = [c \in 0 .. TAB_WORDS - 1 |-> {}]
    /\ tab_pc = "fresh"
    /\ tab_x = -1 /\ tab_ret = {} /\ tab_reads = <<>>

\* MS::set_params(a, b)
MSSet(a, b) ==
    /\ tab_pc # "aborted"
    /\ a_' = MSSetParams(a, b).a
    /\ b_' = MSSetParams(a, b).b
    /\ ms_given' = <<a, b>>
    /\ ms_x' = -1 /\ ms_ret' = -1
    /\ UNCHANGED <<tab_build, T_, tab_pc, tab_x, tab_ret, tab_reads>>

\* MS::hash(x)
MSCall(x) ==
    /\ tab_pc # "aborted"
    /\ ms_x' = x
    /\ ms_ret' = MSHash([a |-> a_, b |-> b_], x)
    /\ UNCHANGED <<a_, b_, ms_given, tab_build, T_, tab_pc, tab_x, tab_ret, tab_reads>>

\* inner loop of set_params for one i: T_[i][j] = poly.next32() for j = 0..255;
\* the outer loop has made 256 * i draws before it
TabFillRow(T, i) ==
    [c \in DOMAIN T |->
        IF c - TabCell(i, 0) \in 0 .. TAB_BYTEVALUES - 1
        THEN Poly32Eval(TAB_BYTEVALUES * i + (c - TabCell(i, 0)))
        ELSE T[c]]

\* the words written before a checked subscript stops at j = TAB_INNER
TabFillChecked(T) ==
    [c \in DOMAIN T |-> IF c < TAB_INNER THEN Poly32Eval(c) ELSE T[c]]

\* SimpleTab32::set_params()
TabSetParams ==
    /\ tab_pc \in {"fresh", "ready"}
    /\ IF tab_build = "flat"
       THEN /\ T_' = TabFillRow(TabFillRow(TabFillRow(TabFillRow(T_, 0), 1), 2), 3)
            /\ tab_pc' = "ready"
       ELSE /\ T_' = TabFillChecked(T_)
            /\ tab_pc' = "aborted"
    /\ tab_x' = -1 /\ tab_ret' = {} /\ tab_reads' = <<>>
    /\ UNCHANGED <<a_, b_, ms_given, ms_x, ms_ret, tab_build>>

\* the storage words hash(x) reads: T_[i][byte i of x] for i = 0..3
TabReads(x) == [i \in 1 .. TAB_POSITIONS |-> TabCell(i - 1, TabByte(x, i - 1))]

RECURSIVE TabXorFrom(_, _, _)
TabXorFrom(T, cells, n) ==
    IF n = 0 THEN {} ELSE Xor32(TabXorFrom(T, cells, n - 1), T[cells[n]])

\* SimpleTab32::hash(x)
TabHash(x) ==
    /\ tab_pc \in {"fresh", "ready"}
    /\ tab_x' = x
    /\ IF tab_build = "checked" /\ \E i \in 0 .. TAB_POSITIONS - 1 : TabByte(x, i) >= TAB_INNER
       THEN /\ tab_pc' = "aborted"
            /\ tab_ret' = {} /\ tab_reads' = <<>>
       ELSE /\ tab_pc' = tab_pc
            /\ tab_reads' = TabReads(x)
            /\ tab_ret' = TabXorFrom(T_, TabReads(x), TAB_POSITIONS)
    /\ UNCHANGED <<a_, b_, ms_given, ms_x, ms_ret, tab_build, T_>>

HashIdle ==
    /\ a_ = 1 /\ b_ = 0
    /\ ms_given = <<>> /\ ms_x = -1 /\ ms_ret = -1
    /\ tab_build = "flat"
    /\ T_ = <<>>
    /\ tab_pc = "fresh"
    /\ tab_x = -1 /\ tab_ret = {} /\ tab_reads = <<>>


\* ===================================================================
\* CountMin with hash values at their full 32 bits
\* (src/include/sketch/countmin.hpp).  The column of a key is taken from the
\* top bits of its 32-bit row hash, so the row hash and fast_range32 are
\* computed exactly, on byte limbs; the counters stay at the model's word
\* width, which no run of at most MaxAdds + 1 unit adds can fill.
\* ===================================================================

\* Row hashers: none registered (Row::hash falls back to the identity) or a
\* hasher object whose hash(x) is x XOR 0xFFFFFFFF
CMExHashers == { [kind |-> "null"], [kind |-> "not"] }

CMExKeys == {7, 42, 268435456, 2147483647}

CMExGeometries == { <<16, 2>>, <<3, 2>> }

\* the low 32 bits set
U64_LOW32 == <<255, 255, 255, 255, 0, 0, 0, 0>>

\* value of a 64-bit word known to be below 2^24
U64ToNat(a) == a[1] + 256 * a[2] + 65536 * a[3]

\* Row::hash(k) as a 64-bit word holding the std::uint32_t result
RowHash32(row, k) ==
    IF row.kind = "null" THEN U64Of(k) ELSE U64Xor(U64Of(k), U64_LOW32)

\* std::uint32_t((std::uint64_t(x) * std::uint64_t(n)) >> 32)
fast_range32Mod(x, n) == (x[1] + 256 * x[2]) % n
fast_range32(x, n) == U64ToNat(U64Shr(U64Mul(x, U64Of(n)), 32))

CMExCol(r, key) == fast_range32(RowHash32(rows_[r], key), W_)

\* The row loop of add(): rows r .. D_-1 applied to table t
RECURSIVE CMExAddRows(_, _, _, _)
CMExAddRows(t, r, key, count) ==
    IF r >= D_ THEN t
    ELSE LET i == r * W_ + CMExCol(r, key)
         IN  CMExAddRows([t EXCEPT ![i] = SatAdd(t[i], count)], r + 1, key, count)

\* The row loop of estimate(): running minimum ans over rows r .. D_-1
RECURSIVE CMExEstimateRows(_, _, _)
CMExEstimateRows(ans, r, key) ==
    IF r >= D_ THEN ans
    ELSE LET v == table_[r * W_ + CMExCol(r, key)]
         IN  CMExEstimateRows(IF v < ans THEN v ELSE ans, r + 1, key)

CMExEstimate(key) == CMExEstimateRows(UINT32_MAX, 0, key)

\* CountMin(width, depth)
CMExInit ==
    /\ \E g \in CMExGeometries : W_ = g[1] /\ D_ = g[2]
    /\ rows_ = [r \in 0 .. D_ - 1 |-> [kind |-> "null"]]
    /\ table_ = [i \in 0 .. W_ * D_ - 1 |-> 0]
    /\ cm_true = [k \in CMExKeys |-> 0]
    /\ cm_rehashed = FALSE
    /\ cm_n = 0

\* set_row(row, hasher)
CMExSetRow ==
    \E row \in 0 .. D_ - 1, h \in CMExHashers :
        /\ rows_' = [rows_ EXCEPT ![row] = h]
        /\ cm_rehashed' = (cm_rehashed \/ (cm_n > 0 /\ h # rows_[row]))
        /\ UNCHANGED <<W_, D_, table_, cm_true, cm_n>>

\* add(key), count = 1
CMExAdd ==
    /\ cm_n < MaxAdds
    /\ \E key \in CMExKeys :
        /\ table_' = CMExAddRows(table_, 0, key, 1)
        /\ cm_true' = [cm_true EXCEPT ![key] = @ + 1]
    /\ cm_n' = cm_n + 1
    /\ UNCHANGED <<W_, D_, rows_, cm_rehashed>>


\* ===================================================================
\* Throughput drivers (src/src/time_all_a2.cpp, time_all_r1.cpp,
\* speed_BK_r2.cpp, speed_OPH_a2.cpp: jobs run in shuffled rounds;
\* src/src/speed_CM_a2.cpp: one bench call per function)
\* ===================================================================

ThKinds == {"time_all", "speed_CM"}

\* int rounds = 10, scaled
ThRounds == 2

\* the functions timed (three of the seven, in the order of the jobs vector)
ThJobs == <<"MS", "SimpleTab32", "RapidHash32">>
ThNames == {ThJobs[i] : i \in DOMAIN ThJobs}

\* the sink a timed body leaves for a function: a function of the hasher and
\* the dataset only, the same in every round
ThSink(name) ==
    CASE name = "MS" -> 5 % TWO32
      [] name = "SimpleTab32" -> 9 % TWO32
      [] OTHER -> 6 % TWO32

\* the orders std::shuffle, seeded from std::random_device, can leave, and
\* the orders an unordered_map can iterate its keys in
ThOrders(S) ==
    { s \in [1 .. Cardinality(S) -> S] : \A i, j \in DOMAIN s : s[i] = s[j] => i = j }

VARIABLES
    th_kind,      \* which driver
    th_ok,        \* whether out_csv can be opened for writing
    th_pc,        \* "loop", "run", "bench", "collapse", "write", "exit"
    th_r,         \* _r, the round
    th_jobs,      \* jobs, in their current order
    th_j,         \* position in jobs within the round
    th_rows,      \* rows: <<[name, checksum]>>
    th_out,       \* lines written to the CSV
    th_exit,      \* exit code, -1 while running
    th_shuffles,  \* ghost: number of std::shuffle calls
    th_ran        \* ghost: name -> number of timed runs

thvars == <<th_kind, th_ok, th_pc, th_r, th_jobs, th_j, th_rows, th_out, th_exit,
            th_shuffles, th_ran>>

TH_HEADER == [name |-> "function", checksum |-> -1]

ThInit ==
    /\ th_kind \in ThKinds
    /\ th_ok \in BOOLEAN
    /\ th_pc = IF th_kind = "time_all" THEN "loop" ELSE "bench"
    /\ th_r = 0
    /\ th_jobs = ThJobs
    /\ th_j = 0
    /\ th_rows = <<>>
    /\ th_out = <<>>
    /\ th_exit = -1
    /\ th_shuffles = 0
    /\ th_ran = [n \in ThNames |-> 0]

\* for (_r = 0; _r < rounds; ++_r) { shuffle(jobs) ...
ThShuffle ==
    /\ th_pc = "loop"
    /\ IF th_r < ThRounds
       THEN /\ th_jobs' \in ThOrders(ThNames)
            /\ th_shuffles' = th_shuffles + 1
            /\ th_j' = 0
            /\ th_pc' = "run"
       ELSE /\ th_pc' = "collapse"
            /\ UNCHANGED <<th_jobs, th_shuffles, th_j>>
    /\ UNCHANGED <<th_kind, th_ok, th_r, th_rows, th_out, th_exit, th_ran>>

\* ... for (auto& j : jobs) j.run(); }  -- one job: time it, push its row
ThRunJob ==
    /\ th_pc = "run"
    /\ LET name == th_jobs[th_j + 1]
       IN  /\ th_rows' = Append(th_rows, [name |-> name, checksum |-> ThSink(name)])
           /\ th_ran' = [th_ran EXCEPT ![name] = @ + 1]
    /\ IF th_j + 1 < Len(th_jobs)
       THEN th_j' = th_j + 1 /\ UNCHANGED <<th_r, th_pc>>
       ELSE th_j' = 0 /\ th_r' = th_r + 1 /\ th_pc' = "loop"
    /\ UNCHANGED <<th_kind, th_ok, th_jobs, th_out, th_exit, th_shuffles>>

\* speed_CM_a2: bench_ms(), bench_stab(), ..., bench_rapid(), each once, each
\* followed by rows.push_back
ThBenchAll ==
    /\ th_pc = "bench"
    /\ th_rows' = [i \in DOMAIN ThJobs |-> [name |-> ThJobs[i], checksum |-> ThSink(ThJobs[i])]]
    /\ th_ran' = [n \in ThNames |-> th_ran[n] + 1]
    /\ th_pc' = "collapse"
    /\ UNCHANGED <<th_kind, th_ok, th_r, th_jobs, th_j, th_out, th_exit, th_shuffles>>

\* chk ^= r.checksum over the rows of one group
RECURSIVE ThXorGroup(_, _, _)
ThXorGroup(rows, name, n) ==
    IF n = 0 THEN 0
    ELSE LET rest == ThXorGroup(rows, name, n - 1)
         IN  IF rows[n].name = name
             THEN XorBits(rest, rows[n].checksum, WordBits)
             ELSE rest

\* group the rows by name, one collapsed row per group
ThCollapse ==
    /\ th_pc = "collapse"
    /\ \E order \in ThOrders({th_rows[i].name : i \in DOMAIN th_rows}) :
          th_rows' = [i \in DOMAIN order |->
                        [name |-> order[i],
                         checksum |-> ThXorGroup(th_rows, order[i], Len(th_rows))]]
    /\ th_pc' = "write"
    /\ UNCHANGED <<th_kind, th_ok, th_r, th_jobs, th_j, th_out, th_exit, th_shuffles, th_ran>>

\* open the CSV: return 3 on failure, else header, one line per row, return 0
ThWrite ==
    /\ th_pc = "write"
    /\ IF th_ok
       THEN th_out' = <<TH_HEADER>> \o th_rows /\ th_exit' = 0
       ELSE th_out' = th_out /\ th_exit' = 3
    /\ th_pc' = "exit"
    /\ UNCHANGED <<th_kind, th_ok, th_r, th_jobs, th_j, th_rows, th_shuffles, th_ran>>

ThIdle ==
    /\ th_kind = "time_all" /\ th_ok = TRUE /\ th_pc = "exit" /\ th_r = 0
    /\ th_jobs = ThJobs /\ th_j = 0 /\ th_rows = <<>> /\ th_out = <<>>
    /\ th_exit = -1 /\ th_shuffles = 0 /\ th_ran = [n \in ThNames |-> 0]


vars == <<cmvars, bkvars, ophvars, drvvars, poolvars, dsvars, curvars, hashvars, thvars>>

\* components a specification does not exercise stay as constructed
CMIdle ==
    /\ W_ = 1 /\ D_ = 1
    /\ rows_ = [r \in {0} |-> [kind |-> "null"]]
    /\ table_ = [i \in {0} |-> 0]
    /\ cm_true = [k \in CMKeys |-> 0]
    /\ cm_rehashed = FALSE
    /\ cm_n = 0

BKIdle ==
    /\ k_ = 1 /\ heap_ = <<>> /\ in_heap_ = {} /\ bk_pushed = {} /\ bk_n = 0

OPHIdle ==
    /\ m_ = [s \in OPHSketches |-> 1]
    /\ bins_ = [s \in OPHSketches |-> [i \in {0} |-> EMPTY]]
    /\ oph_bag = [s \in OPHSketches |-> [h \in OPHHashes |-> 0]]
    /\ oph_last = [sk |-> "none"]
    /\ oph_n = [s \in OPHSketches |-> 0]

NextCM ==
    \/ CMSetRow /\ UNCHANGED <<thvars, hashvars, bkvars, ophvars, drvvars, poolvars, dsvars, curvars>>
    \/ CMAdd /\ UNCHANGED <<thvars, hashvars, bkvars, ophvars, drvvars, poolvars, dsvars, curvars>>
    \/ CMClear /\ UNCHANGED <<thvars, hashvars, bkvars, ophvars, drvvars, poolvars, dsvars, curvars>>

NextBK ==
    \/ BKPush /\ UNCHANGED <<thvars, hashvars, cmvars, ophvars, drvvars, poolvars, dsvars, curvars>>
    \/ BKClear /\ UNCHANGED <<thvars, hashvars, cmvars, ophvars, drvvars, poolvars, dsvars, curvars>>

NextOPH ==
    \/ OPHPush /\ UNCHANGED <<thvars, hashvars, cmvars, bkvars, drvvars, poolvars, dsvars, curvars>>
    \/ OPHClear /\ UNCHANGED <<thvars, hashvars, cmvars, bkvars, drvvars, poolvars, dsvars, curvars>>

NextDrv ==
    \/ MainOpen /\ UNCHANGED <<thvars, hashvars, cmvars, bkvars, ophvars, poolvars, dsvars, curvars>>
    \/ MainPregen /\ UNCHANGED <<thvars, hashvars, cmvars, bkvars, ophvars, poolvars, dsvars, curvars>>
    \/ MainLaunch /\ UNCHANGED <<thvars, hashvars, cmvars, bkvars, ophvars, poolvars, dsvars, curvars>>
    \/ MainJoin /\ UNCHANGED <<thvars, hashvars, cmvars, bkvars, ophvars, poolvars, dsvars, curvars>>
    \/ MainFinish /\ UNCHANGED <<thvars, hashvars, cmvars, bkvars, ophvars, poolvars, dsvars, curvars>>
    \/ \E t \in Workers : WLoop(t) /\ UNCHANGED <<thvars, hashvars, cmvars, bkvars, ophvars, poolvars, dsvars, curvars>>
    \/ \E t \in Workers : WLockRng(t) /\ UNCHANGED <<thvars, hashvars, cmvars, bkvars, ophvars, poolvars, dsvars, curvars>>
    \/ \E t \in Workers : WDrawStab(t) /\ UNCHANGED <<thvars, hashvars, cmvars, bkvars, ophvars, poolvars, dsvars, curvars>>
    \/ \E t \in Workers : WDrawTor4(t) /\ UNCHANGED <<thvars, hashvars, cmvars, bkvars, ophvars, poolvars, dsvars, curvars>>
    \/ \E t \in Workers : WRun(t) /\ UNCHANGED <<thvars, hashvars, cmvars, bkvars, ophvars, poolvars, dsvars, curvars>>
    \/ \E t \in Workers : WProgress(t) /\ UNCHANGED <<thvars, hashvars, cmvars, bkvars, ophvars, poolvars, dsvars, curvars>>
    \/ \E t \in Workers : WLockFile(t) /\ UNCHANGED <<thvars, hashvars, cmvars, bkvars, ophvars, poolvars, dsvars, curvars>>
    \/ \E t \in Workers : WWrite(t) /\ UNCHANGED <<thvars, hashvars, cmvars, bkvars, ophvars, poolvars, dsvars, curvars>>

NextDrvTwice ==
    \/ NextDrv
    \/ DrvRerun /\ UNCHANGED <<thvars, hashvars, cmvars, bkvars, ophvars, poolvars, dsvars, curvars>>

InitCM  == CMInit /\ BKIdle /\ OPHIdle /\ DrvIdle /\ PoolIdle /\ DSIdle /\ CurIdle /\ HashIdle /\ ThIdle
InitBK  == BKInit /\ CMIdle /\ OPHIdle /\ DrvIdle /\ PoolIdle /\ DSIdle /\ CurIdle /\ HashIdle /\ ThIdle
InitOPH == OPHInit /\ CMIdle /\ BKIdle /\ DrvIdle /\ PoolIdle /\ DSIdle /\ CurIdle /\ HashIdle /\ ThIdle
InitDrv == DrvInit /\ CMIdle /\ BKIdle /\ OPHIdle /\ PoolIdle /\ DSIdle /\ CurIdle /\ HashIdle /\ ThIdle

NextPool ==
    \/ \E t \in PoolThreads : \E api \in PoolApisOf(t) :
          PoolCall(t, api) /\ UNCHANGED <<thvars, hashvars, cmvars, bkvars, ophvars, drvvars, dsvars, curvars>>
    \/ \E t \in PoolThreads : PoolEnsure(t) /\ UNCHANGED <<thvars, hashvars, cmvars, bkvars, ophvars, drvvars, dsvars, curvars>>
    \/ \E t \in PoolThreads : PoolLock(t) /\ UNCHANGED <<thvars, hashvars, cmvars, bkvars, ophvars, drvvars, dsvars, curvars>>
    \/ \E t \in PoolThreads : PoolU8(t) /\ UNCHANGED <<thvars, hashvars, cmvars, bkvars, ophvars, drvvars, dsvars, curvars>>
    \/ \E t \in PoolThreads : PoolBoolean(t) /\ UNCHANGED <<thvars, hashvars, cmvars, bkvars, ophvars, drvvars, dsvars, curvars>>

InitPool == PoolInit /\ CMIdle /\ BKIdle /\ OPHIdle /\ DrvIdle /\ DSIdle /\ CurIdle /\ HashIdle /\ ThIdle

NextData ==
    \/ A1Ctor /\ UNCHANGED <<thvars, hashvars, cmvars, bkvars, ophvars, drvvars, poolvars, curvars>>
    \/ A1FillFirst /\ UNCHANGED <<thvars, hashvars, cmvars, bkvars, ophvars, drvvars, poolvars, curvars>>
    \/ A1FillSecond /\ UNCHANGED <<thvars, hashvars, cmvars, bkvars, ophvars, drvvars, poolvars, curvars>>
    \/ SplitIntoGroups /\ UNCHANGED <<thvars, hashvars, cmvars, bkvars, ophvars, drvvars, poolvars, curvars>>
    \/ A2BuildFromFile /\ UNCHANGED <<thvars, hashvars, cmvars, bkvars, ophvars, drvvars, poolvars, curvars>>
    \/ A2Sample /\ UNCHANGED <<thvars, hashvars, cmvars, bkvars, ophvars, drvvars, poolvars, curvars>>
    \/ DSReload /\ UNCHANGED <<thvars, hashvars, cmvars, bkvars, ophvars, drvvars, poolvars, curvars>>
    \/ \E which \in {"base", "A", "B"} :
          MakeStream(which) /\ UNCHANGED <<thvars, hashvars, cmvars, bkvars, ophvars, drvvars, poolvars>>
    \/ \E kind \in CursorKinds, n \in 0 .. MaxRecords, with_idx \in BOOLEAN :
          CursorOpen(kind, n, with_idx) /\ UNCHANGED <<thvars, hashvars, cmvars, bkvars, ophvars, drvvars, poolvars>>
    \/ StreamNext /\ UNCHANGED <<thvars, hashvars, cmvars, bkvars, ophvars, drvvars, poolvars>>

InitData == DSInit /\ CurIdle /\ CMIdle /\ BKIdle /\ OPHIdle /\ DrvIdle /\ PoolIdle /\ HashIdle /\ ThIdle

SpecData == InitData /\ [][NextData]_vars

SpecPool == InitPool /\ [][NextPool]_vars

SpecDrv == InitDrv /\ [][NextDrv]_vars

\* the scheduler lets the process take a step whenever some thread can
SpecDrvLive == InitDrv /\ [][NextDrv]_vars /\ WF_vars(NextDrv)

InitDrvTwice == DrvInitTwice /\ CMIdle /\ BKIdle /\ OPHIdle /\ PoolIdle /\ DSIdle /\ CurIdle /\ HashIdle /\ ThIdle

SpecDrvTwice == InitDrvTwice /\ [][NextDrvTwice]_vars

SpecCM == InitCM /\ [][NextCM]_vars

SpecBK == InitBK /\ [][NextBK]_vars

SpecOPH == InitOPH /\ [][NextOPH]_vars

NextHash ==
    \/ \E a \in MSParamInputs, b \in MSOffsetInputs :
          MSSet(a, b) /\ UNCHANGED <<thvars, cmvars, bkvars, ophvars, drvvars, poolvars, dsvars, curvars>>
    \/ \E x \in MSKeyInputs : MSCall(x) /\ UNCHANGED <<thvars, cmvars, bkvars, ophvars, drvvars, poolvars, dsvars, curvars>>
    \/ TabSetParams /\ UNCHANGED <<thvars, cmvars, bkvars, ophvars, drvvars, poolvars, dsvars, curvars>>
    \/ \E x \in TabKeys : TabHash(x) /\ UNCHANGED <<thvars, cmvars, bkvars, ophvars, drvvars, poolvars, dsvars, curvars>>

InitHash == HashInit /\ CMIdle /\ BKIdle /\ OPHIdle /\ DrvIdle /\ PoolIdle /\ DSIdle /\ CurIdle /\ ThIdle

SpecHash == InitHash /\ [][NextHash]_vars

NextCMEx ==
    \/ CMExSetRow /\ UNCHANGED <<thvars, hashvars, bkvars, ophvars, drvvars, poolvars, dsvars, curvars>>
    \/ CMExAdd /\ UNCHANGED <<thvars, hashvars, bkvars, ophvars, drvvars, poolvars, dsvars, curvars>>

InitCMEx == CMExInit /\ BKIdle /\ OPHIdle /\ DrvIdle /\ PoolIdle /\ DSIdle /\ CurIdle /\ HashIdle /\ ThIdle

SpecCMEx == InitCMEx /\ [][NextCMEx]_vars

NextSpeed ==
    \/ ThShuffle /\ UNCHANGED <<cmvars, bkvars, ophvars, drvvars, poolvars, dsvars, curvars, hashvars>>
    \/ ThRunJob /\ UNCHANGED <<cmvars, bkvars, ophvars, drvvars, poolvars, dsvars, curvars, hashvars>>
    \/ ThBenchAll /\ UNCHANGED <<cmvars, bkvars, ophvars, drvvars, poolvars, dsvars, curvars, hashvars>>
    \/ ThCollapse /\ UNCHANGED <<cmvars, bkvars, ophvars, drvvars, poolvars, dsvars, curvars, hashvars>>
    \/ ThWrite /\ UNCHANGED <<cmvars, bkvars, ophvars, drvvars, poolvars, dsvars, curvars, hashvars>>

InitSpeed == ThInit /\ CMIdle /\ BKIdle /\ OPHIdle /\ DrvIdle /\ PoolIdle /\ DSIdle /\ CurIdle /\ HashIdle

SpecSpeed == InitSpeed /\ [][NextSpeed]_vars

\* ================================================================== claims
Range(s) == { s[i] : i \in DOMAIN s }
SetMax(S) == CHOOSE x \in S : \A y \in S : y <= x

\* the k smallest elements of S (all of S when it has fewer than k)
KSmallest(S, k) == { x \in S : Cardinality({ y \in S : y < x }) < k }

\* s is max-heap ordered: no element exceeds its parent
IsMaxHeap(s) == \A i \in 1 .. Len(s) - 1 : At(s, i) <= At(s, (i - 1) \div 2)

FracLeq(e, n) == e.den > 0 /\ e.num <= n * e.den

\* ------------------------------------------------------------------- C1
\* C1 as stated: while the row hashers are unchanged since the first add,
\* estimate(k) >= the true total count added for k, for every key k.
C1_OneSided ==
    ~cm_rehashed => \A k \in CMKeys : CMEstimate(k) >= cm_true[k]

\* C1 amended: while the row hashers are unchanged since the first add,
\* estimate(k) >= min(true total count added for k, UINT32_MAX) for every
\* key k: the estimate is one-sided up to the saturation ceiling.
C1_OneSidedSaturating ==
    ~cm_rehashed =>
        \A k \in CMKeys : CMEstimate(k) >= Min(cm_true[k], UINT32_MAX)

\* C1 witness: a hashed row, a key whose true total passed the ceiling and
\* whose estimate sits at the ceiling, and a key that is overestimated.
C1_Witness ==
    /\ ~cm_rehashed
    /\ \E r \in DOMAIN rows_ : rows_[r].kind = "ms"
    /\ \E k \in CMKeys : cm_true[k] > UINT32_MAX /\ CMEstimate(k) = UINT32_MAX
    /\ \E k \in CMKeys : cm_true[k] > 0 /\ CMEstimate(k) > cm_true[k]

\* ------------------------------------------------------------------- C2
\* The part of C2 that holds in every state: heap_ holds, without
\* repetition, exactly the k_ smallest distinct hashes pushed so far.
BKRetainsKSmallest ==
    /\ Range(heap_) = KSmallest(bk_pushed, k_)
    /\ Len(heap_) = Cardinality(Range(heap_))

\* C2 as stated: after any pushes the retained values are the k smallest
\* distinct hashes pushed, the stored array is max-heap ordered, and
\* kth_hash() is the largest retained value.
C2_HeapAlways ==
    /\ BKRetainsKSmallest
    /\ IsMaxHeap(heap_)
    /\ heap_ # <<>> => kth_hash = SetMax(Range(heap_))

\* C2 amended: after any pushes the retained values are the k smallest
\* distinct hashes pushed; once k values are retained (the array is left in
\* insertion order until then) the stored array is max-heap ordered and
\* kth_hash() is the largest retained value, the k-th smallest pushed.
C2_HeapOnceFull ==
    /\ BKRetainsKSmallest
    /\ (k_ >= 1 /\ Len(heap_) = k_) =>
          /\ IsMaxHeap(heap_)
          /\ kth_hash = SetMax(Range(heap_))
          /\ kth_hash = SetMax(KSmallest(bk_pushed, k_))

\* C2 witness: a full sketch of 4 that has evicted values
C2_Witness ==
    /\ k_ = 4 /\ Len(heap_) = 4
    /\ Cardinality(bk_pushed) = 6
    /\ kth_hash = 7

\* ------------------------------------------------------------------- C3
\* what estimate() must return given the distinct hashes pushed
BKExpected ==
    LET d == Cardinality(bk_pushed)
        kth == SetMax(KSmallest(bk_pushed, k_))
    IN  IF d < k_ THEN Frac(d, 1)
        ELSE IF kth = 0 THEN Infinity
        ELSE Frac((k_ - 1) * TWO32, kth)

\* C3: for a sketch with k >= 1, estimate() returns the number of retained
\* (distinct pushed) hashes while fewer than k are retained, then
\* (k-1) / (kth / 2^32) with kth the k-th smallest hash pushed, and infinity
\* when kth = 0; BottomK(4) fed 7, 3, 11, 5, 2, 9 in any order retains
\* {2, 3, 5, 7} and estimates 3 / (7 / 2^32).
C3_Estimate ==
    k_ >= 1 =>
        /\ BKEstimate = { BKExpected }
        /\ (k_ = 4 /\ bk_pushed = {7, 3, 11, 5, 2, 9}) =>
              /\ Range(heap_) = {2, 3, 5, 7}
              /\ BKEstimate = { Frac(3 * TWO32, 7) }

\* C3 witness: the example's state
C3_Witness ==
    /\ k_ = 4 /\ bk_pushed = {7, 3, 11, 5, 2, 9} /\ bk_n = 6
    /\ BKEstimate = { Frac(3 * TWO32, 7) }

\* ------------------------------------------------------------------- C4
\* C4: size() <= k always, and after n pushes with n < k every value
\* estimate() can return is <= n.
C4_Bounded ==
    /\ BKSize <= k_
    /\ bk_n < k_ => \A e \in BKEstimate : FracLeq(e, bk_n)

\* C4 witness: 3 pushes into a sketch of 4, one of them a duplicate
C4_Witness ==
    /\ k_ = 4 /\ bk_n = 3 /\ BKSize = 2
    /\ BKEstimate = { Frac(2, 1) }

\* ------------------------------------------------------------------- C5
SetMin(S) == CHOOSE x \in S : \A y \in S : x <= y

\* hash values pushed into sketch s that fall into bin i
OPHPushedInto(s, i) ==
    { h \in OPHHashes : oph_bag[s][h] > 0 /\ (h * m_[s]) \div TWO32 = i }

\* every bin holds the minimum pushed value mapped to it, EMPTY if none
OPHBinsAreMinima ==
    \A s \in OPHSketches : \A i \in 0 .. m_[s] - 1 :
        bins_[s][i] = IF OPHPushedInto(s, i) = {} THEN EMPTY
                      ELSE SetMin(OPHPushedInto(s, i))

\* a push step computes an index below m and changes no other bin
OPHPushTouchesOneBin ==
    oph_last'.sk # "none" =>
        LET s == oph_last'.sk
            i == OPHFastRange32(oph_last'.hv, m_[s])
        IN  /\ i < m_[s]
            /\ i = (oph_last'.hv * m_[s]) \div TWO32
            /\ \A t \in OPHSketches : \A j \in 0 .. m_[t] - 1 :
                  bins_'[t][j] # bins_[t][j] => (t = s /\ j = i)

\* C5: after any pushes every bin i of OPH(m) holds the minimum of the pushed
\* hv with floor(hv * m / 2^32) = i, or 0xFFFFFFFF when none maps to i; each
\* push computes an index smaller than m and changes at most that one bin.
C5_BinMinima == [](OPHBinsAreMinima) /\ [][OPHPushTouchesOneBin]_vars

\* C5 witness: a bin that received two different values and keeps the smaller
C5_Witness ==
    /\ m_["A"] = 8 /\ oph_bag["A"][1] > 0 /\ oph_bag["A"][0] > 0
    /\ bins_["A"][0] = 0
    /\ oph_last = [sk |-> "A", hv |-> 1]

\* ------------------------------------------------------------------- C6
\* jaccard(sa, sb) returns exactly 1.0
JaccardIsOne(sa, sb) ==
    LET j == Jaccard(sa, sb)
    IN  m_[sa] = m_[sb] /\ j.den > 0 /\ j.num = j.den

\* C6: two OPH sketches with the same m fed the same multiset of hash values
\* have jaccard = 1.0; so has a sketch compared with itself, and so have two
\* empty sketches.
C6_SameInputJaccardOne ==
    /\ \A s \in OPHSketches : JaccardIsOne(s, s)
    /\ (m_["A"] = m_["B"] /\ oph_bag["A"] = oph_bag["B"]) => JaccardIsOne("A", "B")

\* C6 witness: both sketches were fed 0 and 1, which share a bin, B last
C6_Witness ==
    /\ m_["A"] = m_["B"]
    /\ oph_bag["A"] = oph_bag["B"]
    /\ oph_bag["A"][0] = 1 /\ oph_bag["A"][1] = 1
    /\ oph_last = [sk |-> "B", hv |-> 1]
    /\ JaccardIsOne("A", "B")

\* ------------------------------------------------------------------- C7
\* C7: for two reachable sketches of equal m, jaccard(A, B) = jaccard(B, A).
C7_JaccardSymmetric ==
    m_["A"] = m_["B"] => Jaccard("A", "B") = Jaccard("B", "A")

\* C7 witness: sketches that differ, one bin occupied in A only, one matching
C7_Witness ==
    /\ m_["A"] = m_["B"]
    /\ \E i \in DOMAIN bins_["A"] : bins_["A"][i] # EMPTY /\ bins_["B"][i] = EMPTY
    /\ \E i \in DOMAIN bins_["A"] : bins_["A"][i] # EMPTY /\ bins_["A"][i] = bins_["B"][i]
    /\ Jaccard("A", "B").num < Jaccard("A", "B").den


\* ------------------------------------------------------------ driver claims
\* main has joined every worker and returned 0
DrvJoined == pc_main = "exit" /\ exit_code = 0

\* the repetitions (0-based) a worker has processed, in order, one per row staged
BufReps(t) == [i \in 1 .. Len(buf[t]) |-> buf[t][i].rep - 1]

\* the rows of `out` for one (function, rep)
RowsFor(k) == { i \in DataRows : <<out[i].function, out[i].rep>> = k }

\* C8: with T >= 1 threads and R repetitions, worker t processes exactly the
\* repetitions r with r mod T = t, every repetition in 0..R-1 is processed by
\* exactly one worker, and once all workers are joined the CSV holds exactly
\* one row for each (function, rep) with rep in 1..R.
C8_Striping ==
    threads >= 1 =>
        /\ \A t \in Workers : \A i \in 1 .. Len(buf[t]) :
              /\ BufReps(t)[i] % threads = t
              /\ BufReps(t)[i] \in 0 .. R - 1
              /\ \A j \in 1 .. Len(buf[t]) :
                    (i # j /\ BufReps(t)[i] = BufReps(t)[j])
                        => buf[t][i].function # buf[t][j].function
        /\ DrvJoined =>
              /\ \A r \in 0 .. R - 1 : \A t \in Workers :
                    (\E i \in 1 .. Len(buf[t]) : BufReps(t)[i] = r) <=> (t = r % threads)
              /\ \A t \in Workers :
                    Len(buf[t]) = NUM_FUNCS * Cardinality({ r \in 0 .. R - 1 : r % threads = t })
              /\ \A k \in RowKeys : Cardinality(RowsFor(k)) = 1
              /\ Len(out) = 1 + NUM_FUNCS * R
              /\ \A i \in DataRows : <<out[i].function, out[i].rep>> \in RowKeys

\* two workers over three repetitions have been joined: worker 0 did 0 and 2
C8_Witness ==
    /\ DrvJoined /\ threads = 2 /\ R = 3
    /\ Len(buf[0]) = 2 * NUM_FUNCS /\ Len(buf[1]) = NUM_FUNCS
    /\ buf[0][1].rep = 1 /\ buf[0][NUM_FUNCS + 1].rep = 3 /\ buf[1][1].rep = 2

\* C9: two runs of a driver with the same entropy-pool content, dataset,
\* repetition count and thread count produce the same relerr value for every
\* (function, rep) row, regardless of how the workers are scheduled.
C9_SameRelerr ==
    (prev # NO_RUN /\ DrvJoined) => CsvMap = prev

\* C10: each worker writes to the shared output stream exactly once, while
\* holding the file mutex, so the rows of one repetition are adjacent in the
\* CSV and rows written by different workers are never interleaved.
C10_OneFlush ==
    /\ \A t \in Workers :
          /\ flushes[t] <= 1
          /\ pc[t] = "done" => flushes[t] = 1
          /\ pc[t] = "write" => file_mtx = t
          /\ wr[t] > 0 => flushes[t] = 1
    /\ \A i \in DataRows : \A k \in DataRows : \A j \in i .. k :
          /\ out[i].rep = out[k].rep => out[j].rep = out[i].rep
          /\ out[i].by = out[k].by => out[j].by = out[i].by

\* worker 1 flushed its one repetition before worker 0 flushed its two
C10_Witness ==
    /\ DrvJoined /\ threads = 2 /\ R = 3
    /\ Len(out) = 1 + NUM_FUNCS * R
    /\ out[2].by = 1 /\ out[2 + NUM_FUNCS].by = 0
    /\ flushes[0] = 1 /\ flushes[1] = 1


\* -------------------------------------------------------------- pool claims
\* the bytes at n successive pool positions from `from`, wrapping at the end
RECURSIVE PoolBytesFrom(_, _)
PoolBytesFrom(from, n) ==
    IF n = 0 THEN <<>>
    ELSE <<bytes_[from + 1]>> \o PoolBytesFrom((from + 1) % Len(bytes_), n - 1)

\* b0 * BYTE^(n-1) + b1 * BYTE^(n-2) + ... + b(n-1)
RECURSIVE BigEndian(_)
BigEndian(bs) ==
    IF bs = <<>> THEN 0
    ELSE Head(bs) * (BYTE ^ (Len(bs) - 1)) + BigEndian(Tail(bs))

ApiBytes(api) == IF api = "u32" THEN U32_BYTES ELSE U64_BYTES

\* thread t has returned from a u32()/u64() call
PoolReturnedWide(t) ==
    /\ p_pc[t] = "idle" /\ t \in p_users
    /\ p_api[t] \in {"u32", "u64"}

\* C11: with any number of threads drawing concurrently, every byte consumed
\* is served from the current position under the pool mutex and advances the
\* position by exactly one, wrapping to 0 at the buffer length: no position
\* is handed to two draws within one pass and the position stays below the
\* buffer length.
C11_Serialised ==
    /\ initialized_ => pos_ < Len(bytes_)
    /\ \A t \in PoolThreads : p_pc[t] = "locked" => mu_ = t
    /\ \A i \in 1 .. Len(p_log) : p_log[i] = (i - 1) % Len(bytes_)
    /\ initialized_ => pos_ = Len(p_log) % Len(bytes_)

\* both threads have drawn, a boolean refill took a byte, the pool wrapped
C11_Witness ==
    /\ p_users = PoolThreads
    /\ bit_pos_ # 8
    /\ Len(p_log) > Len(bytes_)
    /\ \E t \in PoolThreads : p_api[t] = "u32" /\ p_left[t] > 0 /\ Len(p_got[t]) > 0

\* C12: for a single consumer, u32() returns the big-endian composition of
\* the next four pool bytes in order (wrapping at the buffer end) and advances
\* the position by 4; u64() likewise with eight bytes.
C12_BigEndian ==
    \A t \in PoolThreads :
        (p_users = {t} /\ PoolReturnedWide(t)) =>
            /\ p_ret[t] = BigEndian(PoolBytesFrom(p_from[t], ApiBytes(p_api[t])))
            /\ pos_ = (p_from[t] + ApiBytes(p_api[t])) % Len(bytes_)

\* a lone consumer's u64() that started mid-buffer and wrapped, with distinct bytes
C12_Witness ==
    \E t \in PoolThreads :
        /\ p_users = {t} /\ PoolReturnedWide(t)
        /\ p_api[t] = "u64" /\ p_from[t] > 0 /\ Len(bytes_) = 5
        /\ p_ret[t] # 0

\* C13: when several threads call u32()/u64() concurrently, each call still
\* returns the big-endian composition of 4 (resp. 8) consecutive pool bytes,
\* not interleaved with another consumer's draws.
C13_WideAtomic ==
    \A t \in PoolThreads :
        PoolReturnedWide(t) =>
            /\ p_got[t] = [i \in 1 .. ApiBytes(p_api[t]) |->
                              (p_from[t] + i - 1) % Len(bytes_)]
            /\ p_ret[t] = BigEndian(PoolBytesFrom(p_from[t], ApiBytes(p_api[t])))


\* ----------------------------------------------------------- dataset claims
\* the key stored at item slot p (0-based) of a 4-byte-key buffer
KeyAt(b, p) == load_le_u32(Record4(b, p))

\* slots taken by the keys 1 .. k under the skew rule: sum of ceil(i / 100)
SkewSlots(k) ==
    LET q == k \div 100
        r == k % 100
    IN 50 * q * (q + 1) + r * (q + 1)

\* the key the skew rule puts at slot p (0-based) of a stream that starts at key 1
SkewKeyAt(p) == CHOOSE k \in 1 .. p + 1 : SkewSlots(k - 1) <= p /\ p < SkewSlots(k)

\* C14: for any N >= 1 and any seed the 50/50 split places base item i in
\* group splitmix64(seed + i) & 1, so sizeA + sizeB = N, every occurrence of
\* the base stream appears in exactly one of the two streams, each stream
\* keeps the base order, and building the split again with the same seed
\* gives identical buffers.
C14_SplitComplete ==
    (ds_kind \in {"A1Split", "A2Split"} /\ ds_pc = "ready") =>
        LET N == Len(buf_) \div 4
            group == [i \in 0 .. N - 1 |-> splitmix64(U64Add(ds_seed, U64Of(i)))[1] % 2]
            rank(i) == Cardinality({ j \in 0 .. i - 1 : group[j] = group[i] })
        IN /\ N = N_
           /\ A_items_ + B_items_ = N
           /\ Len(A_buf_) = 4 * A_items_ /\ Len(B_buf_) = 4 * B_items_
           /\ A_items_ = Cardinality({ i \in 0 .. N - 1 : group[i] = 0 })
           /\ \A i \in 0 .. N - 1 :
                 Record4(buf_, i) = Record4(IF group[i] = 0 THEN A_buf_ ELSE B_buf_, rank(i))
           /\ ds_run = 2 =>
                 /\ A_buf_ = ds_prev.A /\ B_buf_ = ds_prev.B
                 /\ A_items_ = ds_prev.sizeA /\ B_items_ = ds_prev.sizeB

\* A1Split(8, seed) built for the second time, both groups populated
C14_Witness ==
    /\ ds_kind = "A1Split" /\ ds_pc = "ready" /\ ds_run = 2
    /\ N_ = 8 /\ A_items_ > 0 /\ B_items_ > 0
    /\ A_items_ # B_items_

\* C15 as stated: A1(N) emits exactly N 32-bit little-endian keys following
\* the skew rule: starting at key 1, key i appears ceil(i/100) consecutive
\* times before the stream advances to key i+1.
C15_PureSkew ==
    (ds_kind = "A1" /\ ds_pc = "ready") =>
        /\ Len(buf_) = 4 * ds_N
        /\ \A p \in 0 .. ds_N - 1 : KeyAt(buf_, p) = SkewKeyAt(p)

\* C15 amended: A1(N) emits exactly N 32-bit little-endian keys; the first
\* floor(N/2) are the pairs 1,1,2,2,... (a last odd slot holding one copy),
\* and the remaining ones follow the skew rule from key 1: key i appears
\* ceil(i/100) consecutive times.
C15_PairedThenSkew ==
    /\ (ds_kind = "A1" /\ ds_pc = "ready") =>
          /\ N_ = ds_N
          /\ Len(buf_) = 4 * ds_N
          /\ \A p \in 0 .. ds_N - 1 :
                /\ Record4(buf_, p) = store_le_u32(KeyAt(buf_, p))
                /\ KeyAt(buf_, p) = IF p < ds_N \div 2 THEN p \div 2 + 1
                                    ELSE SkewKeyAt(p - ds_N \div 2)
    /\ (ds_kind = "A1" /\ ds_pc = "ready" /\ c_kind = "StreamPtr" /\ c_after > 0) =>
          /\ Len(c_seen) = ds_N
          /\ \A k \in 1 .. ds_N : c_seen[k] = <<4 * (k - 1), 4>>

\* A1(206) walked to its end: the tail reaches keys 101 (twice) and 102
C15_Witness ==
    /\ ds_kind = "A1" /\ ds_N = 206 /\ ds_pc = "ready"
    /\ c_kind = "StreamPtr" /\ c_after > 0 /\ Len(c_seen) = 206
    /\ KeyAt(buf_, 203) = 101 /\ KeyAt(buf_, 204) = 101 /\ KeyAt(buf_, 205) = 102
    /\ KeyAt(buf_, 0) = 1 /\ KeyAt(buf_, 1) = 1 /\ KeyAt(buf_, 102) = 52

C16_SeenInOrder ==
    c_kind # "none" =>
        /\ Len(c_seen) <= Len(c_recs)
        /\ \A k \in 1 .. Len(c_seen) :
              /\ c_seen[k][2] = Len(c_recs[k])
              /\ c_kind # "StreamVar" => c_seen[k][2] = RecordWidth(c_kind)
              /\ c_seen[k][1] + c_seen[k][2] <= Len(c_base)
              /\ SubSeq(c_base, c_seen[k][1] + 1, c_seen[k][1] + c_seen[k][2]) = c_recs[k]
        /\ c_after > 0 => Len(c_seen) = Len(c_recs)
        /\ c_kind # "StreamVar" => Len(c_recs) = sp_n

C16_ExhaustedNoEffect ==
    c_after' = c_after + 1 =>
        /\ c_ret' = FALSE
        /\ sp_i' = sp_i /\ out_ptr' = out_ptr /\ out_len' = out_len

\* C16: a stream cursor over a key buffer of N records (StreamPtr, Stream20,
\* StreamVar, BufferStream) yields exactly N records in insertion order, each
\* of the advertised length, and every next() called after exhaustion returns
\* false without changing the cursor position or the caller's output pointer
\* and length.
C16_Cursor == [](C16_SeenInOrder) /\ [][C16_ExhaustedNoEffect]_vars

\* a Stream20 over two records, called twice more after its end
C16_Witness ==
    /\ c_kind = "Stream20" /\ Len(c_seen) = 2 /\ c_after = 2
    /\ out_ptr = 20 /\ out_len = 20 /\ c_ret = FALSE

IsOrOne(stored, a) == stored % 2 = 1 /\ stored \div 2 = a \div 2

\* h is the high word of the 64-bit value y
IsHighWord(h, y) == h \in Word32 /\ h * TWO32 <= y /\ y < (h + 1) * TWO32

\* C18: after MS::set_params(a, b) the stored multiplier is a | 1 (and b is
\* stored as given), and every hash(x) returns the high 32 bits of
\* ((a | 1) * x + b) mod 2^64; in particular set_params(2, 5).hash(0) = 0 and
\* set_params(3, 0).hash(1) = 0.
C18_OddHighWord ==
    /\ ms_given # <<>> => IsOrOne(a_, ms_given[1]) /\ b_ = ms_given[2]
    /\ (ms_given # <<>> /\ ms_x # -1) =>
          \E m \in {ms_given[1], ms_given[1] + 1} :
             /\ IsOrOne(m, ms_given[1])
             /\ IsHighWord(ms_ret, (m * ms_x + ms_given[2]) % TWO64)
    /\ (ms_given = <<2, 5>> /\ ms_x = 0) => ms_ret = 0
    /\ (ms_given = <<3, 0>> /\ ms_x = 1) => ms_ret = 0

\* an even multiplier was given, and a hash call whose product-sum wrapped
\* past 2^64 returned a non-zero high word
C18_Witness ==
    /\ ms_given # <<>> /\ ms_given[1] % 2 = 0 /\ ms_given[1] > 0
    /\ ms_x > 0 /\ ms_ret > 0
    /\ a_ * ms_x + b_ >= TWO64

\* the draw set_params makes for byte value j at byte position i: the loop
\* reaches (i, j) after 256 * i + j calls of next32()
TabDrawFor(i, j) == Poly32Eval(TAB_BYTEVALUES * i + j)

\* C19: once set_params has returned, every (byte value, byte position) pair
\* has a table cell of its own holding the draw made for it, and hash(x) is
\* the XOR of the four entries selected by the bytes of x.
C19_OwnCells ==
    tab_pc = "ready" =>
        /\ \A i \in 0 .. TAB_POSITIONS - 1, j \in 0 .. TAB_BYTEVALUES - 1 :
              T_[TabCell(i, j)] = TabDrawFor(i, j)
        /\ tab_x # -1 =>
              /\ Cardinality({tab_reads[n] : n \in DOMAIN tab_reads}) = TAB_POSITIONS
              /\ tab_ret = UNION { TabDrawFor(i, TabByte(tab_x, i)) : i \in 0 .. TAB_POSITIONS - 1 }

\* -------------------------------------------------------------------
\* CountMin worked example
\* -------------------------------------------------------------------

\* CountMin(16, 2), row 0 hashing with the identity and row 1 with
\* x XOR 0xFFFFFFFF, both installed before the adds 42, 42, 7
CMExample ==
    /\ W_ = 16 /\ D_ = 2
    /\ rows_[0].kind = "null" /\ rows_[1].kind = "not"
    /\ ~cm_rehashed
    /\ cm_true = [k \in CMExKeys |-> IF k = 42 THEN 2 ELSE IF k = 7 THEN 1 ELSE 0]

\* C20 as stated: after add(42), add(42), add(7) the sketch returns
\* estimate(42) = 2 and estimate(7) = 1.
C20_DistinctColumns ==
    CMExample => CMExEstimate(42) = 2 /\ CMExEstimate(7) = 1

\* C20 amended: 42 and 7 share column 0 of the identity row and column 15 of
\* the complement row, so after add(42), add(42), add(7) the sketch returns
\* estimate(42) = 3 and estimate(7) = 3.
C20_SharedColumns ==
    CMExample =>
        /\ CMExCol(0, 42) = 0 /\ CMExCol(0, 7) = 0
        /\ CMExCol(1, 42) = 15 /\ CMExCol(1, 7) = 15
        /\ CMExEstimate(42) = 3 /\ CMExEstimate(7) = 3

C20_Witness ==
    CMExample /\ cm_n = 3 /\ table_[0] = 3 /\ table_[31] = 3

\* -------------------------------------------------------------------
\* CountMin saturation
\* -------------------------------------------------------------------

\* the cells add(key, ...) touches: one per row, at the key's column
CMTouched(key) ==
    { r * W_ + CMFastRange32(RowHash(rows_[r], key), W_) : r \in 0 .. D_ - 1 }

\* C21: add(key, c) never wraps a counter: every touched cell becomes
\* min(old + c, 2^32 - 1), no other cell changes, and a cell that has reached
\* 2^32 - 1 keeps that value under any further adds.
C21_AddStep ==
    (cm_n' = cm_n + 1) =>
        \E key \in CMKeys, count \in CMCounts :
            /\ cm_true' = [cm_true EXCEPT ![key] = @ + count]
            /\ \A i \in DOMAIN table_ :
                  /\ i \in CMTouched(key) =>
                        table_'[i] = Min(table_[i] + count, UINT32_MAX)
                  /\ i \notin CMTouched(key) => table_'[i] = table_[i]
                  /\ table_[i] = UINT32_MAX => table_'[i] = UINT32_MAX

C21_Saturates == [][C21_AddStep]_vars

\* a key was added twice with the largest count: its cells met the ceiling
\* at the first add and were added to again
C21_Witness ==
    /\ cm_n >= 2
    /\ \E k \in CMKeys :
          /\ cm_true[k] >= 2 * UINT32_MAX
          /\ \A i \in CMTouched(k) : table_[i] = UINT32_MAX

\* -------------------------------------------------------------------
\* BottomK estimate sign
\* -------------------------------------------------------------------

FracIsInfinite(e) == e.den = 0
FracIsZero(e)     == e.num = 0 /\ e.den > 0
FracIsPositive(e) == e.num > 0

\* C22 as stated: in every state reachable by constructing a sketch and
\* pushing hashes estimate() is strictly positive, and it is infinite exactly
\* in the degenerate case where the sketch is full and its k-th value is 0.
C22_AlwaysPositive ==
    \A e \in BKEstimate :
        /\ FracIsPositive(e)
        /\ FracIsInfinite(e) <=> (Len(heap_) >= k_ /\ 0 \in BKFront)

\* C22 amended: for k >= 2, estimate() is strictly positive and finite once
\* a hash has been pushed (the largest of k distinct retained values is never
\* 0); a sketch with k >= 1 that retains nothing estimates 0; a sketch with
\* k = 1 estimates 0 when its retained value is not 0 and infinity when it
\* is 0.
C22_PositiveFromTwo ==
    /\ (k_ >= 2 /\ bk_pushed # {}) =>
          \A e \in BKEstimate : FracIsPositive(e) /\ ~FracIsInfinite(e)
    /\ (k_ >= 1 /\ heap_ = <<>>) => \A e \in BKEstimate : FracIsZero(e)
    /\ (k_ = 1 /\ heap_ # <<>>) =>
          \A e \in BKEstimate :
              IF At(heap_, 0) = 0 THEN FracIsInfinite(e) ELSE FracIsZero(e)

\* a sketch of one that has seen two pushes and still estimates 0
C22_Witness ==
    /\ k_ = 1 /\ bk_n >= 2 /\ Cardinality(bk_pushed) = 2
    /\ heap_ # <<>> /\ At(heap_, 0) > 0
    /\ \A e \in BKEstimate : FracIsZero(e)

\* -------------------------------------------------------------------
\* BottomK with k = 0
\* -------------------------------------------------------------------

\* C23: constructing a sketch with k = 0 fails at the call site, so no
\* sketch with k = 0 exists that has accepted a push or can answer
\* estimate().
C23_NoZeroSketch ==
    k_ = 0 => (bk_n = 0 /\ BKEstimate = {})

\* -------------------------------------------------------------------
\* Driver exit codes
\* -------------------------------------------------------------------

\* C24: a driver that cannot open its output CSV file for writing terminates
\* with exit code 3.
C24_UnwritableExits3 ==
    (pc_main = "exit" /\ ~out_ok) => exit_code = 3

\* -------------------------------------------------------------------
\* Throughput drivers
\* -------------------------------------------------------------------

\* XOR of n copies of a word
RECURSIVE XorTimes(_, _)
XorTimes(w, n) == IF n = 0 THEN 0 ELSE XorBits(XorTimes(w, n - 1), w, WordBits)

\* C25: a throughput driver that exits with success has run every job
\* `rounds` times, has shuffled the jobs before each round, and has written
\* exactly one CSV row per function, whose checksum is the XOR of the
\* function's per-round checksums.
C25_RoundsShuffled ==
    (th_pc = "exit" /\ th_exit = 0) =>
        /\ th_shuffles = ThRounds
        /\ \A n \in ThNames : th_ran[n] = ThRounds
        /\ Len(th_out) = 1 + Cardinality(ThNames)
        /\ \A n \in ThNames :
              \E i \in 2 .. Len(th_out) :
                  /\ th_out[i].name = n
                  /\ th_out[i].checksum = XorTimes(ThSink(n), ThRounds)

\* -------------------------------------------------------------------
\* Parallel accuracy drivers: mutexes and termination
\* -------------------------------------------------------------------

\* C26: in every parallel accuracy driver a worker that is inside a
\* tabulation-family set_params() holds the mutex guarding the entropy pool.
C26_DrawsUnderMutex ==
    \A t \in Workers : pc[t] \in {"stab", "tor4"} => rng_mtx = t

\* the mutexes worker t owns
DrvHeld(t) ==
    {m \in {"rng", "file", "cout"} :
        (m = "rng" /\ rng_mtx = t) \/ (m = "file" /\ file_mtx = t) \/ (m = "cout" /\ cout_mtx = t)}

\* worker t is about to acquire a driver mutex
DrvAcquiring(t) ==
    \/ pc[t] \in {"lock_rng", "lock_file"}
    \/ pc[t] = "progress" /\ (n_[t] % PROG_STEP = 0 \/ n_[t] = R)

\* every launched worker has returned after writing all it staged, once
DrvAllFlushed ==
    /\ joined = threads
    /\ \A t \in Workers :
          pc[t] = "done" /\ wr[t] = Len(buf[t]) /\ flushes[t] = 1
          /\ file_mtx # t /\ rng_mtx # t

HeapValues == { heap_[i] : i \in 1..Len(heap_) }
C28_DedupExact ==
    /\ [](in_heap_ = HeapValues /\ Cardinality(HeapValues) = Len(heap_))
    /\ [][\A h \in in_heap_ : BKPushValue(h) => UNCHANGED <<heap_, in_heap_>>]_vars
\* two distinct values fill a sketch of size 2 and one of them was pushed again
C28_Witness ==
    /\ k_ = 2
    /\ Len(heap_) = 2
    /\ Cardinality(bk_pushed) = 2
    /\ bk_n > 2

\* C29: a bin of an OPH sketch differs from the sentinel EMPTY exactly when
\* some pushed hash value maps to it, whatever 32-bit value was pushed, and
\* jaccard counts a bin in its denominator exactly when one of its two
\* inputs received a hash value for that bin
OPHContributed(s) == { i \in 0 .. m_[s] - 1 : OPHPushedInto(s, i) # {} }
C29_NonEmptyIffPushed ==
    /\ \A s \in OPHSketches : \A i \in 0 .. m_[s] - 1 :
          (bins_[s][i] # EMPTY) <=> (OPHPushedInto(s, i) # {})
    /\ (m_["A"] = m_["B"]) =>
          JaccardCount(bins_["A"], bins_["B"], 0, 0, 0)[2]
             = Cardinality(OPHContributed("A") \cup OPHContributed("B"))

\* C30: for every worker count the driver accepts on the command line,
\* --threads 0 included, a run that exits with code 0 has written all
\* R x NUM_FUNCS result rows, never the CSV header alone
C30_SuccessHasAllRows ==
    DrvJoined => Len(out) = 1 + NUM_FUNCS * R
=============================================================================
